---- MODULE Spec2Model ----
(***************************************************************************)
(* Visitor-session lifecycle and automatic AI fallback of tgo-api.         *)
(*                                                                         *)
(*   close_visitor_session   app/services/session_service.py               *)
(*   check_and_fallback_to_ai, start/stop of the periodic task             *)
(*                           app/tasks/auto_fallback_to_ai.py              *)
(*                                                                         *)
(* The relational store is the committed state (visitor, session, member). *)
(* Every coroutine is cut at its awaits: one action runs the code between  *)
(* two awaits, and the collaborator's answer (a value, nothing, or an      *)
(* exception) is the action's input.                                       *)
(***************************************************************************)
EXTENDS Integers, Sequences, FiniteSets, TLC

\* ------------------------------------------------------------------ bounds
MaxTime == 2          \* the clock runs 0..MaxTime
NumIds == 4           \* pool of client_msg_no values (uuid4 draws an unused one)
MaxLen == 3           \* length of the short strings given to the codec
MaxLoops == 2         \* loop tasks alive at once that the model counts

\* ------------------------------------------------------- program constants
MAX_AI_FALLBACK_RETRIES == 3
VISITOR_CHANNEL_SUFFIX == "-vtr"

\* SQL NULL / Python None, for string columns and for numeric columns
Null == "null"
NONE == 0 - 1

Visitors == {"v1", "v2"}
Platforms == {"p1", "p2"}
Staffs == {"st1"}
Calls == {"c1", "c2"}
StopCalls == {"x1", "x2"}
SessionIds == <<"s1", "s2">>
Sessions == {SessionIds[i] : i \in 1..Len(SessionIds)}
Ids == 1..NumIds
NoId == 0
Times == 0..MaxTime
Texts == {"hello"}

VARIABLES
    now,        \* datetime.utcnow(), in seconds
    platform,   \* api_platforms rows
    visitor,    \* api_visitors rows (committed)
    session,    \* api_visitor_sessions rows (committed)
    member,     \* api_channel_members: number of live rows per key (committed)
    close,      \* the close_visitor_session calls in progress
    sched,      \* the periodic task and its position inside a tick
    unanswered, \* history: the visitor's latest message has had no AI answer
    aiFails,    \* history: failed AI calls in a row, per visitor
    event,      \* history: what the scheduler did last
    life,       \* _auto_fallback_task, the loop tasks alive, the stop calls waiting
    calc,       \* the last call of a function of app/utils/encoding.py
    ensure,     \* the ensure_visitor_channel calls in progress
    twin        \* a second loop task beside the one of sched, and its position

vars == <<now, platform, visitor, session, member, close, sched, unanswered,
          aiFails, event, life, calc, ensure, twin>>

\* a step that is not the scheduler's leaves the histories and clears the event
Quiet ==
    /\ event' = [kind |-> "none", visitor |-> "null"]
    /\ UNCHANGED <<unanswered, aiFails, life, calc, ensure, twin>>

\* ------------------------------------------------------------ identifiers
build_visitor_channel_id(visitor_id) == visitor_id \o VISITOR_CHANNEL_SUFFIX

StaffUid(staff_id) == staff_id \o "-staff"

\* ChannelMember key: (channel_id, member_id, member_type)
MemberKeys ==
    {<<build_visitor_channel_id(v), st, "staff">> : v \in Visitors, st \in Staffs}
    \cup {<<build_visitor_channel_id(v), v, "visitor">> : v \in Visitors}

\* ------------------------------------------------------------------ rows
NoSession ==
    [status |-> "none", visitor_id |-> Null, staff_id |-> Null,
     created_at |-> NONE, closed_at |-> NONE, duration_seconds |-> NONE,
     last_message_seq |-> NONE, last_message_at |-> NONE]

NewVisitor(p) ==
    [platform_id |-> p, service_status |-> "new",
     is_last_message_from_visitor |-> FALSE, is_last_message_from_ai |-> FALSE,
     last_message_at |-> NONE, last_client_msg_no |-> NoId,
     ai_fallback_retry_count |-> 0, ai_disabled |-> Null, deleted |-> FALSE]

IdleCall ==
    [pc |-> "idle", sid |-> Null, copy |-> NoSession, closer |-> Null,
     notify |-> FALSE, auto |-> FALSE, issued |-> <<>>, failed |-> FALSE,
     dirty |-> {}, pending |-> {}, error |-> Null, notice |-> <<>>]

NoRequest == [message |-> Null, from_uid |-> Null, client_msg_no |-> NoId]

IdleSched ==
    [task |-> FALSE, pc |-> "none", plats |-> {}, platform |-> Null,
     queue |-> {}, cur |-> Null, snap |-> NewVisitor(Null),
     fetched |-> Null, request |-> NoRequest]

NoEvent == [kind |-> "none", visitor |-> Null]

\* line 21: no task handle, no loop
NoLoop == [handle |-> "none", loops |-> 0, stopping |-> {}]

NoCalc == [fn |-> "none", args |-> <<>>, out |-> <<>>, raised |-> FALSE]

IdleEnsure == [pc |-> "idle", visitor |-> Null, added |-> FALSE]

StaffRow ==
    [st \in Staffs |-> [name |-> Null, nickname |-> "Ann", username |-> "ann01"]]

\* ---------------------------------------------------------------- helpers
OpenSessionsOf(sess, v) ==
    {s \in Sessions : sess[s].status = "open" /\ sess[s].visitor_id = v}

\* SQLAlchemy flushes an UPDATE of the columns whose value was changed
DirtyColumns(loaded, new) == {f \in DOMAIN new : new[f] # loaded[f]}

ApplyUpdate(row, new, cols) ==
    [f \in DOMAIN row |-> IF f \in cols THEN new[f] ELSE row[f]]

ChannelLastMessages ==
    {[kind |-> "raise", message_seq |-> NONE, timestamp |-> NONE],
     [kind |-> "none", message_seq |-> NONE, timestamp |-> NONE]}
    \cup [kind : {"msg"}, message_seq : {7}, timestamp : {0, 1}]

\* ------------------------------------------------- app/utils/encoding.py
\* A str is the sequence of its code points, bytes the sequence of its byte
\* values. An int of Python is unbounded: it is the sequence of its base-256
\* digits, most significant first, without leading zeros (<<>> is 0).
\* A loop over a sequence is evaluated in halves: the loop over s \o t is the
\* loop over s followed by the loop over t from the state that the first one
\* left, the first half being evaluated before the second is begun. This
\* keeps the evaluation shallow.
Chr(str) ==
    CASE str = "0" -> 48 [] str = "9" -> 57 [] str = "a" -> 97 [] str = "f" -> 102
      [] str = "-" -> 45 [] str = "@" -> 64 [] str = " " -> 32 [] str = "4" -> 52
      [] str = "8" -> 56

\* line 14: _BASE62_ALPHABET[i]
Base62Char(i) ==
    IF i < 10 THEN 48 + i ELSE IF i < 36 THEN 65 + (i - 10) ELSE 97 + (i - 36)

\* line 67: _BASE62_ALPHABET.find(ch), -1 when ch is not in the alphabet
Base62Find(ch) ==
    IF ch >= 48 /\ ch <= 57 THEN ch - 48
    ELSE IF ch >= 65 /\ ch <= 90 THEN ch - 65 + 10
    ELSE IF ch >= 97 /\ ch <= 122 THEN ch - 97 + 36
    ELSE 0 - 1

\* str.encode("utf-8") of one code point (no surrogates among the inputs)
Utf8Bytes(cp) ==
    IF cp < 128 THEN <<cp>>
    ELSE IF cp < 2048 THEN <<192 + (cp \div 64), 128 + (cp % 64)>>
    ELSE IF cp < 65536
    THEN <<224 + (cp \div 4096), 128 + ((cp \div 64) % 64), 128 + (cp % 64)>>
    ELSE <<240 + (cp \div 262144), 128 + ((cp \div 4096) % 64),
           128 + ((cp \div 64) % 64), 128 + (cp % 64)>>

\* line 48: raw_string.encode("utf-8")
RECURSIVE Utf8Encode(_)
Utf8Encode(str) ==
    IF str = <<>> THEN <<>>
    ELSE IF Len(str) = 1 THEN Utf8Bytes(str[1])
    ELSE Utf8Encode(SubSeq(str, 1, Len(str) \div 2))
             \o Utf8Encode(SubSeq(str, Len(str) \div 2 + 1, Len(str)))

IsCont(b) == b >= 128 /\ b <= 191

\* the code point that starts at data[pos] and the position after it, or an
\* error for an invalid, truncated, overlong or surrogate sequence
Utf8One(data, pos) ==
    LET b == data[pos]
        n == IF b < 128 THEN 1
             ELSE IF b >= 194 /\ b <= 223 THEN 2
             ELSE IF b >= 224 /\ b <= 239 THEN 3
             ELSE IF b >= 240 /\ b <= 244 THEN 4
             ELSE 0
        ok == /\ n > 0
              /\ pos + n - 1 <= Len(data)
              /\ \A i \in 1..(n - 1) : IsCont(data[pos + i])
              /\ (b = 224) => data[pos + 1] >= 160
              /\ (b = 237) => data[pos + 1] <= 159
              /\ (b = 240) => data[pos + 1] >= 144
              /\ (b = 244) => data[pos + 1] <= 143
        cp == CASE n = 1 -> b
                [] n = 2 -> (b - 192) * 64 + (data[pos + 1] - 128)
                [] n = 3 -> (b - 224) * 4096 + (data[pos + 1] - 128) * 64
                            + (data[pos + 2] - 128)
                [] n = 4 -> (b - 240) * 262144 + (data[pos + 1] - 128) * 4096
                            + (data[pos + 2] - 128) * 64 + (data[pos + 3] - 128)
    IN IF ok THEN [raised |-> FALSE, out |-> <<cp>>, pos |-> pos + n]
       ELSE [raised |-> TRUE, out |-> <<>>, pos |-> pos]

\* at most k code points of data from position pos on
RECURSIVE Utf8Run(_, _, _)
Utf8Run(data, pos, k) ==
    IF k = 0 \/ pos > Len(data) THEN [raised |-> FALSE, out |-> <<>>, pos |-> pos]
    ELSE IF k = 1 THEN Utf8One(data, pos)
    ELSE LET first == Utf8Run(data, pos, k \div 2)
         IN IF first.raised THEN first
            ELSE LET rest == Utf8Run(data, first.pos, k - (k \div 2))
                 IN IF rest.raised THEN rest
                    ELSE [raised |-> FALSE, out |-> first.out \o rest.out,
                          pos |-> rest.pos]

\* line 89: data.decode("utf-8"), strict
Utf8Decode(data) ==
    LET run == Utf8Run(data, 1, Len(data))
    IN [raised |-> run.raised, out |-> run.out]

\* the digits without their leading zeros
StripZeros(digits) ==
    LET nonzero == {i \in 1..Len(digits) : digits[i] # 0}
    IN IF nonzero = {} THEN <<>>
       ELSE SubSeq(digits, CHOOSE i \in nonzero : \A j \in nonzero : i <= j,
                   Len(digits))

\* line 50: int.from_bytes(data, byteorder="big", signed=False)
IntFromBytes(data) == StripZeros(data)

\* line 31: divmod(n, 62) by long division, r the remainder carried in
RECURSIVE LongDiv62(_, _)
LongDiv62(n, r) ==
    IF n = <<>> THEN [q |-> <<>>, r |-> r]
    ELSE IF Len(n) = 1
    THEN [q |-> <<(r * 256 + n[1]) \div 62>>, r |-> (r * 256 + n[1]) % 62]
    ELSE LET high == LongDiv62(SubSeq(n, 1, Len(n) \div 2), r)
             low == LongDiv62(SubSeq(n, Len(n) \div 2 + 1, Len(n)), high.r)
         IN [q |-> high.q \o low.q, r |-> low.r]

DivMod62(n) ==
    LET dm == LongDiv62(n, 0) IN [q |-> StripZeros(dm.q), r |-> dm.r]

\* k iterations of the loop of lines 30-32, the digits joined in the order
\* they were appended: without line 33's reversed()
RECURSIVE Base62LoopUnreversed(_, _)
Base62LoopUnreversed(n, k) ==
    IF k = 0 \/ n = <<>> THEN [n |-> n, digits |-> <<>>]
    ELSE IF k = 1
    THEN LET dm == DivMod62(n) IN [n |-> dm.q, digits |-> <<Base62Char(dm.r)>>]
    ELSE LET first == Base62LoopUnreversed(n, k \div 2)
         IN IF first.n = <<>> THEN first
            ELSE LET rest == Base62LoopUnreversed(first.n, k - (k \div 2))
                 IN [n |-> rest.n, digits |-> first.digits \o rest.digits]

\* lines 30-33: at most k iterations of the loop "while n > 0", the digits in
\* the order of line 33's reversed()
RECURSIVE Base62Loop(_, _)
Base62Loop(n, k) ==
    IF k = 0 \/ n = <<>> THEN [n |-> n, digits |-> <<>>]
    ELSE IF k = 1
    THEN LET dm == DivMod62(n) IN [n |-> dm.q, digits |-> <<Base62Char(dm.r)>>]
    ELSE LET first == Base62Loop(n, k \div 2)
         IN IF first.n = <<>> THEN first
            ELSE LET rest == Base62Loop(first.n, k - (k \div 2))
                 IN [n |-> rest.n, digits |-> rest.digits \o first.digits]

\* lines 18-33; a number of Len(n) bytes has at most 2 * Len(n) digits in
\* base 62, so the loop has ended after that many iterations
int_to_base62(n) ==
    IF n = <<>> THEN <<Chr("0")>> ELSE Base62Loop(n, 2 * Len(n)).digits

\* lines 36-51 (raw_string is a str here)
encode_channel_id(raw_string) ==
    int_to_base62(IntFromBytes(Utf8Encode(raw_string)))

\* str.strip(): the code points for which str.isspace() holds
Whitespace ==
    {9, 10, 11, 12, 13, 28, 29, 30, 31, 32, 133, 160, 5760, 8232, 8233, 8239,
     8287, 12288} \cup (8192..8202)

Strip(str) ==
    LET inked == {i \in 1..Len(str) : str[i] \notin Whitespace}
    IN IF inked = {} THEN <<>>
       ELSE SubSeq(str, CHOOSE i \in inked : \A j \in inked : i <= j,
                   CHOOSE i \in inked : \A j \in inked : j <= i)

\* line 70: n * 62 + carry, digit by digit from the least significant one;
\* carry is what is left over above the digits
RECURSIVE LongMul62(_, _)
LongMul62(n, carry) ==
    IF n = <<>> THEN [digits |-> <<>>, carry |-> carry]
    ELSE IF Len(n) = 1
    THEN [digits |-> <<(n[1] * 62 + carry) % 256>>,
          carry |-> (n[1] * 62 + carry) \div 256]
    ELSE LET low == LongMul62(SubSeq(n, Len(n) \div 2 + 1, Len(n)), carry)
             both == <<low, LongMul62(SubSeq(n, 1, Len(n) \div 2), low.carry)>>
         IN [digits |-> both[2].digits \o both[1].digits,
             carry |-> both[2].carry]

MulAdd62(n, idx) ==
    LET product == LongMul62(n, idx)
    IN StripZeros(<<product.carry>> \o product.digits)

\* lines 65-70: the loop over the characters of str from the value so far;
\* ValueError at the first character outside the alphabet
RECURSIVE Base62Run(_, _)
Base62Run(value, str) ==
    IF str = <<>> THEN [raised |-> FALSE, value |-> value]
    ELSE IF Len(str) = 1
    THEN IF Base62Find(str[1]) = 0 - 1 THEN [raised |-> TRUE, value |-> <<>>]
         ELSE [raised |-> FALSE, value |-> MulAdd62(value, Base62Find(str[1]))]
    ELSE LET first == Base62Run(value, SubSeq(str, 1, Len(str) \div 2))
         IN IF first.raised THEN first
            ELSE Base62Run(first.value,
                           SubSeq(str, Len(str) \div 2 + 1, Len(str)))

\* lines 56-71: "if not s" gives 0, as the loop over an empty string does
base62_to_int(str) == Base62Run(<<>>, Strip(str))

\* lines 74-89: to_bytes of the minimal length gives the digits themselves
decode_channel_id(encoded) ==
    LET int_value == base62_to_int(encoded)
    IN IF int_value.raised THEN [raised |-> TRUE, out |-> <<>>]
       ELSE Utf8Decode(int_value.value)

\* A 32-bit word is the sequence of its bits, most significant first.
\* a byte widened to a word
ByteWord(b) ==
    <<0,0,0,0, 0,0,0,0, 0,0,0,0, 0,0,0,0, 0,0,0,0, 0,0,0,0,
      (b \div 128) % 2, (b \div 64) % 2, (b \div 32) % 2, (b \div 16) % 2,
      (b \div 8) % 2, (b \div 4) % 2, (b \div 2) % 2, b % 2>>

Xor(x, y) ==
    <<(x[1] + y[1]) % 2, (x[2] + y[2]) % 2,
      (x[3] + y[3]) % 2, (x[4] + y[4]) % 2,
      (x[5] + y[5]) % 2, (x[6] + y[6]) % 2,
      (x[7] + y[7]) % 2, (x[8] + y[8]) % 2,
      (x[9] + y[9]) % 2, (x[10] + y[10]) % 2,
      (x[11] + y[11]) % 2, (x[12] + y[12]) % 2,
      (x[13] + y[13]) % 2, (x[14] + y[14]) % 2,
      (x[15] + y[15]) % 2, (x[16] + y[16]) % 2,
      (x[17] + y[17]) % 2, (x[18] + y[18]) % 2,
      (x[19] + y[19]) % 2, (x[20] + y[20]) % 2,
      (x[21] + y[21]) % 2, (x[22] + y[22]) % 2,
      (x[23] + y[23]) % 2, (x[24] + y[24]) % 2,
      (x[25] + y[25]) % 2, (x[26] + y[26]) % 2,
      (x[27] + y[27]) % 2, (x[28] + y[28]) % 2,
      (x[29] + y[29]) % 2, (x[30] + y[30]) % 2,
      (x[31] + y[31]) % 2, (x[32] + y[32]) % 2>>

AllOnes ==
    <<1,1,1,1, 1,1,1,1, 1,1,1,1, 1,1,1,1, 1,1,1,1, 1,1,1,1, 1,1,1,1, 1,1,1,1>>

\* the reflected polynomial 0xEDB88320 of zlib's CRC-32
CrcPoly ==
    <<1,1,1,0, 1,1,0,1, 1,0,1,1, 1,0,0,0, 1,0,0,0, 0,0,1,1, 0,0,1,0, 0,0,0,0>>

\* k bits of the register: shift right, and xor the polynomial in when the
\* bit shifted out is set
RECURSIVE CrcShift(_, _)
CrcShift(crc, k) ==
    IF k = 0 THEN crc
    ELSE IF crc[32] = 1
    THEN CrcShift(Xor(<<0>> \o SubSeq(crc, 1, 31), CrcPoly), k - 1)
    ELSE CrcShift(<<0>> \o SubSeq(crc, 1, 31), k - 1)

\* the register after the bytes of data
RECURSIVE CrcUpdate(_, _)
CrcUpdate(crc, data) ==
    IF data = <<>> THEN crc
    ELSE IF Len(data) = 1 THEN CrcShift(Xor(crc, ByteWord(data[1])), 8)
    ELSE LET first == CrcUpdate(crc, SubSeq(data, 1, Len(data) \div 2))
             both == <<first, CrcUpdate(first, SubSeq(data, Len(data) \div 2 + 1,
                                                      Len(data)))>>
         IN both[2]

\* lines 152-153: zlib.crc32(data)
crc32(data) == Xor(CrcUpdate(AllOnes, data), AllOnes)

\* x < y for two sequences of numbers, as Python orders str and as the
\* numbers of two words of equal width are ordered
SeqLess(x, y) ==
    \E i \in 1..Len(y) :
        /\ i - 1 <= Len(x)
        /\ \A j \in 1..(i - 1) : x[j] = y[j]
        /\ i > Len(x) \/ x[i] < y[i]

\* str(n) of line 166, n >= 0
RECURSIVE Decimal(_)
Decimal(n) ==
    IF n < 10 THEN <<Chr("0") + n>>
    ELSE Append(Decimal(n \div 10), Chr("0") + (n % 10))

At(x, y) == x \o <<Chr("@")>> \o y

\* lines 139-166 without the fallback of lines 157-161 for two uids of one hash
get_session_id_hash_only(from_uid, to_uid, channel_type) ==
    IF channel_type = 1
    THEN IF SeqLess(crc32(Utf8Encode(to_uid)), crc32(Utf8Encode(from_uid)))
         THEN At(from_uid, to_uid)
         ELSE At(to_uid, from_uid)
    ELSE At(to_uid, Decimal(channel_type))

\* line 166 with the sender in place of the channel
get_session_id_of_sender(from_uid, to_uid, channel_type) ==
    IF channel_type = 1
    THEN get_session_id_hash_only(from_uid, to_uid, channel_type)
    ELSE At(from_uid, Decimal(channel_type))

\* lines 139-166
get_session_id(from_uid, to_uid, channel_type) ==
    IF channel_type = 1
    THEN LET from_hash == crc32(Utf8Encode(from_uid))
             to_hash == crc32(Utf8Encode(to_uid))
         IN IF SeqLess(to_hash, from_hash) THEN At(from_uid, to_uid)
            ELSE IF /\ from_uid # to_uid
                    /\ from_hash = to_hash
                    /\ SeqLess(to_uid, from_uid)
            THEN At(from_uid, to_uid)
            ELSE At(to_uid, from_uid)
    ELSE At(to_uid, Decimal(channel_type))

\* An argument that may be of more than one type is a record of its type and
\* its value. A UUID is the sequence of the 32 hexadecimal digits of its int.
Str(chars) == [type |-> "str", value |-> chars]

Uuid(digits) == [type |-> "UUID", value |-> digits]

\* lines 92-93, as code points
VisitorSuffix == <<45, 118, 116, 114>>

ProjectStaffSuffix == <<45, 112, 114, 106>>

\* '%x' of one digit
HexChar(d) == IF d < 10 THEN 48 + d ELSE 87 + d

\* UUID.__str__: '%032x' of the int, cut 8-4-4-4-12
UuidStr(digits) ==
    LET hex == [i \in 1..32 |-> HexChar(digits[i])]
    IN SubSeq(hex, 1, 8) \o <<45>> \o SubSeq(hex, 9, 12) \o <<45>>
           \o SubSeq(hex, 13, 16) \o <<45>> \o SubSeq(hex, 17, 20) \o <<45>>
           \o SubSeq(hex, 21, 32)

\* lines 116-119: str(visitor_id) on either branch
PyStr(x) == IF x.type = "UUID" THEN UuidStr(x.value) ELSE x.value

\* lines 110-120 with the suffix of line 93
BuildVisitorChannelIdProjectSuffix(visitor_id) ==
    PyStr(visitor_id) \o ProjectStaffSuffix

\* lines 110-120, on code points
BuildVisitorChannelId(visitor_id) == PyStr(visitor_id) \o VisitorSuffix

\* lines 96-107
build_project_staff_channel_id(project_id) ==
    PyStr(project_id) \o ProjectStaffSuffix

\* the characters of str at the positions in keep, in their order
Pick(str, keep) ==
    [k \in 1..Cardinality(keep) |->
        str[CHOOSE i \in keep : Cardinality({j \in keep : j <= i}) = k]]

OccursAt(str, old, j) ==
    /\ j >= 1
    /\ j + Len(old) - 1 <= Len(str)
    /\ SubSeq(str, j, j + Len(old) - 1) = old

\* str.replace(old, ''), for an old that no two occurrences of can overlap
Remove(str, old) ==
    Pick(str, {i \in 1..Len(str) :
                  ~\E j \in (i - Len(old) + 1)..i : OccursAt(str, old, j)})

\* str.strip(chars)
StripChars(str, chars) ==
    LET inked == {i \in 1..Len(str) : str[i] \notin chars}
    IN IF inked = {} THEN <<>>
       ELSE SubSeq(str, CHOOSE i \in inked : \A j \in inked : i <= j,
                   CHOOSE i \in inked : \A j \in inked : j <= i)

\* the value of a hexadecimal digit, -1 for any other character
HexValue(ch) ==
    IF ch >= 48 /\ ch <= 57 THEN ch - 48
    ELSE IF ch >= 65 /\ ch <= 70 THEN ch - 55
    ELSE IF ch >= 97 /\ ch <= 102 THEN ch - 87
    ELSE 0 - 1

\* what int(str, 16) skips on either side: the ASCII white space of C and the
\* white space above ASCII
IntWhitespace == Whitespace \ {28, 29, 30, 31}

\* int(str, 16) for a str of at most 32 characters, none of them a decimal
\* digit of another script: white space on either side, a sign, "0x" or "0X",
\* then digits with single underscores between them (one may follow the
\* prefix). The value is given as 32 digits. A "-" cannot reach this call.
IntBase16(str) ==
    LET bare == StripChars(str, IntWhitespace)
        signed == bare # <<>> /\ bare[1] = 43
        unsigned == IF signed THEN SubSeq(bare, 2, Len(bare)) ELSE bare
        prefixed == /\ Len(unsigned) >= 2
                    /\ unsigned[1] = 48
                    /\ unsigned[2] \in {88, 120}
        body == IF prefixed THEN SubSeq(unsigned, 3, Len(unsigned)) ELSE unsigned
        digitAt == {i \in 1..Len(body) : HexValue(body[i]) # 0 - 1}
        wellFormed ==
            /\ body # <<>>
            /\ \A i \in 1..Len(body) : i \in digitAt \/ body[i] = 95
            /\ Len(body) \in digitAt
            /\ prefixed \/ 1 \in digitAt
            /\ \A i \in 1..(Len(body) - 1) : i \in digitAt \/ (i + 1) \in digitAt
        found == Pick(body, digitAt)
    IN IF ~wellFormed THEN [raised |-> TRUE, value |-> <<>>]
       ELSE [raised |-> FALSE,
             value |-> [i \in 1..32 |->
                           IF i <= 32 - Len(found) THEN 0
                           ELSE HexValue(found[i - (32 - Len(found))])]]

\* uuid.UUID(hex): "urn:" and "uuid:" are removed, braces stripped from both
\* ends, hyphens removed; what is left must be 32 characters that int reads
UuidFromHex(hex) ==
    LET plain == Remove(StripChars(Remove(Remove(hex, <<117, 114, 110, 58>>),
                                          <<117, 117, 105, 100, 58>>),
                                   {123, 125}),
                        <<45>>)
    IN IF Len(plain) # 32 THEN [raised |-> TRUE, value |-> <<>>]
       ELSE IntBase16(plain)

\* str.endswith
EndsWith(str, suffix) == OccursAt(str, suffix, Len(str) - Len(suffix) + 1)

\* lines 123-136; ValueError on either path
parse_visitor_channel_id(channel_id) ==
    IF channel_id.type # "str" \/ ~EndsWith(channel_id.value, VisitorSuffix)
    THEN [raised |-> TRUE, value |-> <<>>]
    ELSE UuidFromHex(SubSeq(channel_id.value, 1,
                            Len(channel_id.value) - Len(VisitorSuffix)))

\* ------------------------------------------------ close_visitor_session
\* the guard of line 44 left out
AlreadyClosedUnchecked(copy) == FALSE

\* line 44: the guard reads the session object the caller passed
AlreadyClosed(copy) == copy.status = "closed"

\* lines 67-72: the snapshot of the channel's last message
ApplySnapshot(copy, out) ==
    IF out.kind = "msg"
    THEN [copy EXCEPT !.last_message_seq = out.message_seq,
                      !.last_message_at =
                          IF out.timestamp # 0 THEN out.timestamp ELSE @]
    ELSE copy

\* VisitorSession.close(): status, closed_at, duration
SessionClose(copy, t) ==
    [copy EXCEPT !.status = "closed", !.closed_at = t,
                 !.duration_seconds = t - copy.created_at]


\* lines 84-86 left out: the visitor keeps its service_status
VisitorLeftOpen(row) == row

MarkVisitorClosed(row) == [row EXCEPT !.service_status = "closed"]


\* lines 88-92 left out: nothing is sent to the database before the later steps
PersistNothing(row, loaded, closed) == row

\* lines 88-92: the UPDATE of the session row that the commit (or flush) sends
PersistClose(row, loaded, closed) ==
    ApplyUpdate(row, closed, DirtyColumns(loaded, closed))

\* line 140
StaffDisplayName(st) ==
    IF StaffRow[st].name # Null THEN StaffRow[st].name
    ELSE IF StaffRow[st].nickname # Null THEN StaffRow[st].nickname
    ELSE StaffRow[st].username

\* lines 138-140 left out: the message is always sent as the system actor
ClosedNoticeAnonymous(closer) ==
    [from_uid |-> "system", staff_uid |-> Null, staff_name |-> Null]

\* lines 135-148: the arguments of send_session_closed_message
ClosedNotice(closer) ==
    [from_uid |-> IF closer # Null THEN StaffUid(closer) ELSE "system",
     staff_uid |-> IF closer # Null THEN StaffUid(closer) ELSE Null,
     staff_name |-> IF closer # Null THEN StaffDisplayName(closer) ELSE Null]

\* the notification is sent after the conversation deletion
NextFrom7NotifyLate(copy, notify) ==
    IF notify THEN "notify" ELSE "returned"

\* lines 169, 155, 133, 105: which step runs next (a step not taken is skipped)
NextFrom7(copy, notify) ==
    IF copy.staff_id # Null THEN "trigger" ELSE "returned"

\* line 155 left out: the conversation deletion is requested for every close
NextFrom6Always(copy, notify) == "delete"

NextFrom6(copy, notify) ==
    IF copy.staff_id # Null THEN "delete" ELSE NextFrom7(copy, notify)

NextFrom5(copy, notify) ==
    IF notify THEN "notify" ELSE NextFrom6(copy, notify)

NextFrom4(copy, notify) ==
    IF copy.staff_id # Null THEN "remove" ELSE NextFrom5(copy, notify)

BusSteps == {"remove", "notify", "delete", "trigger"}

\* the call moves to `pc`: a collaborator call is issued, or the call returns
Enter(call, pc) ==
    [call EXCEPT !.pc = pc,
                 !.issued = IF pc \in BusSteps THEN Append(@, pc) ELSE @,
                 !.notice = IF pc = "notify"
                            THEN Append(@, ClosedNotice(call.closer)) ELSE @]

\* lines 107-116: the live ChannelMember row of the staff, in this transaction
StaffMemberKey(copy) ==
    <<build_visitor_channel_id(copy.visitor_id), copy.staff_id, "staff">>

\* lines 43-65: the guard, then the first collaborator call
CloseCall(c, s, closer, notify, auto) ==
    /\ close[c].pc = "idle"
    /\ session[s].status # "none"
    /\ LET call == [IdleCall EXCEPT !.sid = s, !.copy = session[s],
                                    !.closer = closer, !.notify = notify,
                                    !.auto = auto]
       IN close' = [close EXCEPT ![c] =
               IF AlreadyClosed(call.copy)
               THEN [call EXCEPT !.pc = "raised", !.error = "already_closed"]
               ELSE [call EXCEPT !.pc = "snapshot",
                                 !.issued = <<"last_message">>]]
    /\ UNCHANGED <<now, platform, visitor, session, member, sched>>
    /\ Quiet

\* lines 66-126: the snapshot, the close, the commit or flush, the soft delete
CloseSnapshotReturn(c, out, db_ok, cm_ok) ==
    /\ close[c].pc = "snapshot"
    /\ LET call == close[c]
           s == call.sid
           loaded == call.copy
           v == loaded.visitor_id
           closed == SessionClose(ApplySnapshot(loaded, out), now)
           cols == DirtyColumns(loaded, closed)
           committed == PersistClose(session[s], loaded, closed)
           copy2 == IF call.auto THEN committed ELSE closed
           hasMember == copy2.staff_id # Null /\ member[StaffMemberKey(copy2)] > 0
       IN IF ~db_ok
          THEN /\ close' = [close EXCEPT ![c] =
                       [call EXCEPT !.pc = "raised", !.error = "commit_failed",
                                    !.failed = (out.kind = "raise")]]
               /\ UNCHANGED <<session, visitor>>
          ELSE /\ IF call.auto
                  THEN /\ session' = [session EXCEPT ![s] = committed]
                       /\ visitor' = [visitor EXCEPT ![v] = MarkVisitorClosed(@)]
                  ELSE UNCHANGED <<session, visitor>>
               /\ LET c2 == [call EXCEPT
                                !.copy = copy2,
                                !.dirty = IF call.auto THEN {} ELSE cols,
                                !.failed = (out.kind = "raise"),
                                !.pending =
                                    (IF call.auto THEN {} ELSE {"close"})
                                    \cup (IF hasMember /\ cm_ok
                                          THEN {"member"} ELSE {})]
                  IN close' = [close EXCEPT ![c] =
                          IF hasMember /\ ~cm_ok
                          THEN [c2 EXCEPT !.pc = "raised",
                                          !.error = "member_flush_failed"]
                          ELSE Enter(c2, NextFrom4(copy2, call.notify))]
    /\ UNCHANGED <<now, platform, member, sched>>
    /\ Quiet

\* lines 127-130
CloseRemoveReturn(c, ok) ==
    /\ close[c].pc = "remove"
    /\ close' = [close EXCEPT ![c] =
           Enter([@ EXCEPT !.failed = @ \/ ~ok],
                 NextFrom5(close[c].copy, close[c].notify))]
    /\ UNCHANGED <<now, platform, visitor, session, member, sched>>
    /\ Quiet

\* lines 149-152
CloseNotifyReturn(c, ok) ==
    /\ close[c].pc = "notify"
    /\ close' = [close EXCEPT ![c] =
           Enter([@ EXCEPT !.failed = @ \/ ~ok],
                 NextFrom6(close[c].copy, close[c].notify))]
    /\ UNCHANGED <<now, platform, visitor, session, member, sched>>
    /\ Quiet

\* lines 163-166
CloseDeleteReturn(c, ok) ==
    /\ close[c].pc = "delete"
    /\ close' = [close EXCEPT ![c] =
           Enter([@ EXCEPT !.failed = @ \/ ~ok],
                 NextFrom7(close[c].copy, close[c].notify))]
    /\ UNCHANGED <<now, platform, visitor, session, member, sched>>
    /\ Quiet

\* lines 172-176
CloseTriggerReturn(c, ok) ==
    /\ close[c].pc = "trigger"
    /\ close' = [close EXCEPT ![c] =
           Enter([@ EXCEPT !.failed = @ \/ ~ok], "returned")]
    /\ UNCHANGED <<now, platform, visitor, session, member, sched>>
    /\ Quiet

\* The caller ends its transaction: what close_visitor_session only flushed is
\* committed with it or rolled back (a call that raised is rolled back).
CloseDone(c, commit) ==
    /\ close[c].pc \in {"returned", "raised"}
    /\ commit => close[c].pc = "returned"
    /\ LET call == close[c]
           s == call.sid
           v == call.copy.visitor_id
           key == StaffMemberKey(call.copy)
       IN /\ IF commit /\ "close" \in call.pending
             THEN /\ session' = [session EXCEPT ![s] =
                          ApplyUpdate(@, call.copy, call.dirty)]
                  /\ visitor' = [visitor EXCEPT ![v] = MarkVisitorClosed(@)]
             ELSE UNCHANGED <<session, visitor>>
          /\ IF commit /\ "member" \in call.pending /\ member[key] > 0
             THEN member' = [member EXCEPT ![key] = @ - 1]
             ELSE UNCHANGED member
    /\ close' = [close EXCEPT ![c] = IdleCall]
    /\ UNCHANGED <<now, platform, sched>>
    /\ Quiet

\* ------------------------------------------------ ensure_visitor_channel
\* app/services/visitor_service.py. Each caller has a database session of its
\* own: a row it has added is seen by the others once it is committed.
VisitorMemberKey(v) == <<build_visitor_channel_id(v), v, "visitor">>

\* lines 121-151: the query for a live row of the visitor, the add when there
\* is none, then the call of create_channel
EnsureCall(e, v) ==
    /\ ensure[e].pc = "idle"
    /\ ~visitor[v].deleted
    /\ ensure' = [ensure EXCEPT ![e] =
           [pc |-> "create", visitor |-> v,
            added |-> member[VisitorMemberKey(v)] = 0]]
    /\ event' = NoEvent
    /\ UNCHANGED <<now, platform, visitor, session, member, close, sched,
                   unanswered, aiFails, life, calc, twin>>

\* lines 152-168: create_channel has answered; the added row is committed, or
\* rolled back when create_channel or the commit raised
EnsureReturn(e, ok, db_ok) ==
    /\ ensure[e].pc = "create"
    /\ member' = IF ok /\ db_ok /\ ensure[e].added
                 THEN [member EXCEPT ![VisitorMemberKey(ensure[e].visitor)] = @ + 1]
                 ELSE member
    /\ ensure' = [ensure EXCEPT ![e] = IdleEnsure]
    /\ event' = NoEvent
    /\ UNCHANGED <<now, platform, visitor, session, close, sched,
                   unanswered, aiFails, life, calc, twin>>

\* ------------------------------------------------- external collaborators
UsedIds ==
    {visitor[v].last_client_msg_no : v \in Visitors}
    \cup {sched.snap.last_client_msg_no, sched.request.client_msg_no}
    \cup {twin.snap.last_client_msg_no, twin.request.client_msg_no}

HasFreshId == \E i \in Ids : i \notin UsedIds

\* uuid4: an id nobody holds
FreshId == CHOOSE i \in Ids : i \notin UsedIds /\ \A j \in Ids : j \notin UsedIds => i <= j

FreeSession ==
    LET idx == {i \in 1..Len(SessionIds) : session[SessionIds[i]].status = "none"}
    IN SessionIds[CHOOSE i \in idx : \A j \in idx : i <= j]

\* the clock
Advance ==
    /\ now < MaxTime
    /\ now' = now + 1
    /\ UNCHANGED <<platform, visitor, session, member, close, sched>>
    /\ Quiet

\* inbound-message handling records the channel's last message on the visitor
InboundMessage(v, sender, reset) ==
    /\ ~visitor[v].deleted
    /\ HasFreshId
    /\ sender = "staff" => ~reset
    /\ visitor' = [visitor EXCEPT ![v] =
           [@ EXCEPT !.is_last_message_from_visitor = (sender = "visitor"),
                     !.is_last_message_from_ai = FALSE,
                     !.last_message_at = now,
                     !.last_client_msg_no = FreshId,
                     !.ai_fallback_retry_count = IF reset THEN 0 ELSE @]]
    /\ unanswered' = [unanswered EXCEPT ![v] = IF sender = "visitor" THEN TRUE ELSE @]
    /\ aiFails' = [aiFails EXCEPT ![v] = IF sender = "visitor" THEN 0 ELSE @]
    /\ event' = NoEvent
    /\ UNCHANGED <<now, platform, session, member, close, ensure, twin, sched, life, calc>>

\* a visitor is queued (no staff) or assigned to a staff member: a session opens
Engage(v, st) ==
    /\ ~visitor[v].deleted
    /\ OpenSessionsOf(session, v) = {}
    /\ \E s \in Sessions : session[s].status = "none"
    /\ session' = [session EXCEPT ![FreeSession] =
           [NoSession EXCEPT !.status = "open", !.visitor_id = v,
                             !.staff_id = st, !.created_at = now]]
    /\ visitor' = [visitor EXCEPT ![v].service_status =
           IF st = Null THEN "queued" ELSE "active"]
    /\ member' = IF st = Null THEN member
                 ELSE [member EXCEPT ![<<build_visitor_channel_id(v), st, "staff">>] =
                           IF @ = 0 THEN 1 ELSE @]
    /\ UNCHANGED <<now, platform, close, sched>>
    /\ Quiet

\* a queued session gets its staff member
AssignStaff(s, st) ==
    /\ session[s].status = "open"
    /\ session[s].staff_id = Null
    /\ session' = [session EXCEPT ![s].staff_id = st]
    /\ visitor' = [visitor EXCEPT ![session[s].visitor_id].service_status = "active"]
    /\ member' = [member EXCEPT
           ![<<build_visitor_channel_id(session[s].visitor_id), st, "staff">>] =
               IF @ = 0 THEN 1 ELSE @]
    /\ UNCHANGED <<now, platform, close, sched>>
    /\ Quiet

\* ------------------------------------------------ check_and_fallback_to_ai
\* the platform query without line 64
IsAssistPlatformAnyMode(row) ==
    /\ row.fallback_to_ai_timeout > 0
    /\ row.is_active
    /\ ~row.deleted

\* lines 63-68
IsAssistPlatform(row) ==
    /\ row.ai_mode = "assist"
    /\ row.fallback_to_ai_timeout > 0
    /\ row.is_active
    /\ ~row.deleted

\* the query without line 87
IsCandidateAnyStatus(row, p, cutoff_time) ==
    /\ row.platform_id = p
    /\ row.is_last_message_from_visitor
    /\ row.last_message_at # NONE
    /\ row.last_message_at < cutoff_time
    /\ row.last_client_msg_no # NoId
    /\ row.ai_fallback_retry_count < MAX_AI_FALLBACK_RETRIES
    /\ ~row.deleted
    /\ row.ai_disabled \in {Null, "false"}

\* the query without line 91
IsCandidateAnyRetryCount(row, p, cutoff_time) ==
    /\ row.platform_id = p
    /\ row.service_status = "active"
    /\ row.is_last_message_from_visitor
    /\ row.last_message_at # NONE
    /\ row.last_message_at < cutoff_time
    /\ row.last_client_msg_no # NoId
    /\ ~row.deleted
    /\ row.ai_disabled \in {Null, "false"}

\* lines 85-94
IsCandidate(row, p, cutoff_time) ==
    /\ row.platform_id = p
    /\ row.service_status = "active"
    /\ row.is_last_message_from_visitor
    /\ row.last_message_at # NONE
    /\ row.last_message_at < cutoff_time
    /\ row.last_client_msg_no # NoId
    /\ row.ai_fallback_retry_count < MAX_AI_FALLBACK_RETRIES
    /\ ~row.deleted
    /\ row.ai_disabled \in {Null, "false"}

\* lines 74-94: the candidates of one platform, at the time of the query
Candidates(vis, p) ==
    {v \in Visitors :
        IsCandidate(vis[v], p, now - platform[p].fallback_to_ai_timeout)}

\* lines 135-139: the open sessions of the visitor that have a staff member
StaffedSessions(v) ==
    {s \in Sessions : /\ session[s].visitor_id = v
                      /\ session[s].status = "open"
                      /\ session[s].staff_id # Null}


\* a generic AI sender stands in when no staff member is assigned
ActingIdentitiesOrAi(v) ==
    IF StaffedSessions(v) = {} THEN {"ai"}
    ELSE {StaffUid(session[s].staff_id) : s \in StaffedSessions(v)}

\* lines 141-142: the identities the AI may speak as
ActingIdentities(v) ==
    {StaffUid(session[s].staff_id) : s \in StaffedSessions(v)}

\* lines 132, 157-168: the arguments of handle_ai_response_non_stream
AiRequest(content, from_uid, id) ==
    [message |-> content, from_uid |-> from_uid, client_msg_no |-> id]

\* the unrecoverable message is counted as one more retry
MarkExhaustedAsRetry(snap) ==
    [snap EXCEPT !.ai_fallback_retry_count = @ + 1]

\* lines 114, 126, 146
MarkExhausted(snap) ==
    [snap EXCEPT !.ai_fallback_retry_count = MAX_AI_FALLBACK_RETRIES]


\* line 173 left out: the sender flag of the visitor stays set
FallbackSucceededFlagKept(snap, id) ==
    [snap EXCEPT !.is_last_message_from_ai = TRUE,
                 !.last_client_msg_no = id,
                 !.ai_fallback_retry_count = 0]

\* line 174 left out: the stalled message's id stays
FallbackSucceededIdKept(snap, id) ==
    [snap EXCEPT !.is_last_message_from_ai = TRUE,
                 !.is_last_message_from_visitor = FALSE,
                 !.ai_fallback_retry_count = 0]

\* lines 172-175
FallbackSucceeded(snap, id) ==
    [snap EXCEPT !.is_last_message_from_ai = TRUE,
                 !.is_last_message_from_visitor = FALSE,
                 !.last_client_msg_no = id,
                 !.ai_fallback_retry_count = 0]


\* lines 182, 189 left out: a failed call is not counted
FallbackFailedUncounted(snap) == snap

\* a failed call also takes the message for answered
FallbackFailedFlagCleared(snap) ==
    [snap EXCEPT !.ai_fallback_retry_count = @ + 1,
                 !.is_last_message_from_visitor = FALSE]

\* lines 182, 189
FallbackFailed(snap) ==
    [snap EXCEPT !.ai_fallback_retry_count = @ + 1]

\* the sender flags are committed, the other changed columns are not
CommitVisitorFlagsOnly(vis, v, snap, new) ==
    [vis EXCEPT ![v] = ApplyUpdate(@, new,
        DirtyColumns(snap, new)
        \cap {"is_last_message_from_ai", "is_last_message_from_visitor"})]

\* db.add(visitor); db.commit(): the changed columns reach the row
CommitVisitor(vis, v, snap, new) ==
    [vis EXCEPT ![v] = ApplyUpdate(@, new, DirtyColumns(snap, new))]

\* lines 32-40: a loop task outside a tick: just created, or asleep at line 38
NewLoop == [IdleSched EXCEPT !.task = TRUE, !.pc = "sleep"]

\* lines 73, 96, 100-109: the loops go on to the next candidate and issue its
\* message query, or the tick ends. A commit or rollback has expired the
\* loaded visitors, so the candidate's attributes are read again here.
RECURSIVE Continue(_, _, _, _)
Continue(vis, plats, p, queue) ==
    IF queue # {}
    THEN {[NewLoop EXCEPT !.pc = "fetch", !.plats = plats, !.platform = p,
                          !.queue = queue \ {v}, !.cur = v, !.snap = vis[v]]
            : v \in queue}
    ELSE IF plats = {}
    THEN {NewLoop}
    ELSE UNION {Continue(vis, plats \ {q}, q, Candidates(vis, q)) : q \in plats}

\* lines 26-41: with a handle set the call returns at once; else a loop task
\* is created and the handle points to it. `sched` follows the first loop
\* alive and `twin` the second.
Start ==
    IF life.handle # "none"
    THEN UNCHANGED vars
    ELSE /\ life.loops < MaxLoops
         /\ life' = [life EXCEPT !.handle = "live", !.loops = @ + 1]
         /\ sched' = IF sched.task THEN sched ELSE NewLoop
         /\ twin' = IF sched.task /\ ~twin.task THEN NewLoop ELSE twin
         /\ event' = NoEvent
         /\ UNCHANGED <<now, platform, visitor, session, member, close, ensure,
                        unanswered, aiFails, calc>>

\* line 40: the handle names the task created last; sched holds the first
\* loop alive, twin the second, and further loops are only counted
HandleLoop ==
    CASE life.loops = 1 -> sched
      [] life.loops = 2 -> twin
      [] OTHER -> IdleSched

\* lines 43-49: without a handle the call returns at once. Else the task the
\* handle points to is cancelled at the await it is suspended in, and the call
\* awaits it; awaiting a task that is already done goes straight on to
\* lines 50-53.
Stop(k) ==
    /\ k \notin life.stopping
    /\ CASE life.handle = "none" -> UNCHANGED vars
         [] life.handle = "live" ->
              /\ life' = [life EXCEPT !.handle = "dead", !.loops = @ - 1,
                                      !.stopping = @ \cup {k}]
              /\ sched' = IF life.loops = 1 THEN IdleSched ELSE sched
              /\ twin' = IF life.loops = 2 THEN IdleSched ELSE twin
              /\ event' = [kind |-> "cancelled_" \o HandleLoop.pc,
                            visitor |-> HandleLoop.cur]
              /\ UNCHANGED <<now, platform, visitor, session, member, close, ensure,
                             unanswered, aiFails, calc>>
         [] life.handle = "dead" ->
              /\ \/ life' = [life EXCEPT !.stopping = @ \cup {k}]
                 \/ life' = [life EXCEPT !.handle = "none"]
              /\ event' = NoEvent
              /\ UNCHANGED <<now, platform, visitor, session, member, close, ensure, twin,
                             sched, unanswered, aiFails, calc>>

\* lines 50-53: the awaited task has ended, the handle is cleared
StopReturn(k) ==
    /\ k \in life.stopping
    /\ life' = [life EXCEPT !.handle = "none", !.stopping = @ \ {k}]
    /\ event' = NoEvent
    /\ UNCHANGED <<now, platform, visitor, session, member, close, ensure, twin, sched,
                   unanswered, aiFails, calc>>

\* lines 60-109: the sleep ends, a tick begins
TickOf(loop, loop_next) ==
    /\ loop.task
    /\ loop.pc = "sleep"
    /\ loop_next \in Continue(visitor, {p \in Platforms : IsAssistPlatform(platform[p])},
                              Null, {})
    /\ event' = NoEvent
    /\ UNCHANGED <<now, platform, visitor, session, member, close, unanswered,
                   aiFails, life, calc, ensure>>

Tick == TickOf(sched, sched') /\ UNCHANGED twin

TwinTick == TickOf(twin, twin') /\ UNCHANGED sched

FetchedMessages ==
    [kind : {"raise", "none", "empty"}, content : {""}]
    \cup [kind : {"text"}, content : Texts]

\* lines 110-168: get_message_by_client_msg_no has answered
FetchReturnOf(loop, loop_next, out) ==
    /\ loop.pc = "fetch"
    /\ LET v == loop.cur
           snap == loop.snap
           uids == ActingIdentities(v)
       IN CASE out.kind = "raise" ->
                 /\ loop_next \in Continue(visitor, loop.plats, loop.platform, loop.queue)
                 /\ event' = [kind |-> "fetch_raised", visitor |-> v]
                 /\ UNCHANGED visitor
            [] out.kind \in {"none", "empty"} ->
                 /\ visitor' = CommitVisitor(visitor, v, snap, MarkExhausted(snap))
                 /\ loop_next \in Continue(visitor', loop.plats, loop.platform, loop.queue)
                 /\ event' = [kind |-> IF out.kind = "none" THEN "no_message"
                                       ELSE "no_content", visitor |-> v]
            [] out.kind = "text" /\ uids = {} ->
                 /\ visitor' = CommitVisitor(visitor, v, snap, MarkExhausted(snap))
                 /\ loop_next \in Continue(visitor', loop.plats, loop.platform, loop.queue)
                 /\ event' = [kind |-> "no_staff", visitor |-> v]
            [] OTHER ->
                 /\ HasFreshId
                 /\ \E uid \in uids :
                        loop_next = [loop EXCEPT
                            !.pc = "ai",
                            !.fetched = out.content,
                            !.request = AiRequest(out.content, uid, FreshId)]
                 /\ event' = [kind |-> "ai_called", visitor |-> v]
                 /\ UNCHANGED visitor
    /\ UNCHANGED <<now, platform, session, member, close, ensure, unanswered, aiFails,
                   life, calc>>

FetchReturn(out) == FetchReturnOf(sched, sched', out) /\ UNCHANGED twin

TwinFetchReturn(out) == FetchReturnOf(twin, twin', out) /\ UNCHANGED sched

\* lines 169-192: handle_ai_response_non_stream has answered
AiReturnOf(loop, loop_next, res) ==
    /\ loop.pc = "ai"
    /\ LET v == loop.cur
           snap == loop.snap
           new == IF res = "result"
                  THEN FallbackSucceeded(snap, loop.request.client_msg_no)
                  ELSE FallbackFailed(snap)
       IN /\ visitor' = CommitVisitor(visitor, v, snap, new)
          /\ loop_next \in Continue(visitor', loop.plats, loop.platform, loop.queue)
          /\ unanswered' = [unanswered EXCEPT ![v] =
                 IF res = "result"
                 THEN /\ visitor[v].is_last_message_from_visitor
                      /\ visitor[v].last_client_msg_no # snap.last_client_msg_no
                 ELSE @]
          /\ aiFails' = [aiFails EXCEPT ![v] =
                 IF res = "result" THEN 0
                 ELSE IF @ < MAX_AI_FALLBACK_RETRIES THEN @ + 1 ELSE @]
          /\ event' = [kind |-> "ai_" \o res, visitor |-> v]
    /\ UNCHANGED <<now, platform, session, member, close, ensure, life, calc>>

AiReturn(res) == AiReturnOf(sched, sched', res) /\ UNCHANGED twin

TwinAiReturn(res) == AiReturnOf(twin, twin', res) /\ UNCHANGED sched

\* neither line 199 nor line 36 catches: the exception ends the loop task
SweepEndsLoop ==
    /\ sched.pc \in {"fetch", "ai"}
    /\ sched' = IdleSched
    /\ event' = [kind |-> "tick_raised", visitor |-> sched.cur]
    /\ UNCHANGED <<now, platform, visitor, session, member, close, ensure, twin, unanswered,
                   aiFails, life, calc>>

\* lines 63-100, 196, 199-202: an exception outside the try of lines 103-197
\* (the visitor query of a platform, the reload of an expired platform or
\* visitor after a commit or rollback, the rollback itself) reaches the handler
\* of line 199: the tick is over, the loop goes to sleep.
SweepRaises ==
    /\ sched.pc \in {"fetch", "ai"}
    /\ sched' = [IdleSched EXCEPT !.task = TRUE, !.pc = "sleep"]
    /\ event' = [kind |-> "tick_raised", visitor |-> sched.cur]
    /\ UNCHANGED <<now, platform, visitor, session, member, close, ensure, twin, unanswered,
                   aiFails, life, calc>>

\* ------------------------------------------------------------ the system
PlatformRows ==
    [p \in Platforms |->
        IF p = "p1"
        THEN [ai_mode |-> "assist", fallback_to_ai_timeout |-> 1,
              is_active |-> TRUE, deleted |-> FALSE]
        ELSE [ai_mode |-> "auto", fallback_to_ai_timeout |-> 1,
              is_active |-> TRUE, deleted |-> FALSE]]

\* One live visitor on the assist platform, never engaged; the other visitor is
\* soft-deleted. No session exists yet and the periodic task is not started.
Init ==
    /\ now = 0
    /\ platform = PlatformRows
    /\ visitor = [v \in Visitors |->
           IF v = "v1" THEN NewVisitor("p1")
           ELSE [NewVisitor("p2") EXCEPT !.deleted = TRUE]]
    /\ session = [s \in Sessions |-> NoSession]
    /\ member = [k \in MemberKeys |-> 0]
    /\ close = [c \in Calls |-> IdleCall]
    /\ sched = IdleSched
    /\ unanswered = [v \in Visitors |-> FALSE]
    /\ aiFails = [v \in Visitors |-> 0]
    /\ event = NoEvent
    /\ life = NoLoop
    /\ calc = NoCalc
    /\ ensure = [e \in Calls |-> IdleEnsure]
    /\ twin = IdleSched

NoLastMessage == {m \in ChannelLastMessages : m.kind \in {"none", "raise"}}

NoMessage == [kind |-> "none", message_seq |-> NONE, timestamp |-> NONE]

\* Ticks, inbound messages, staff assignments and one close at a time. Here the
\* close's collaborators answer and its caller commits; CloseSpec has the rest.
Next ==
    \/ Advance
    \/ \E v \in Visitors, sender \in {"visitor", "staff"}, reset \in BOOLEAN :
           InboundMessage(v, sender, reset)
    \/ \E v \in Visitors, st \in Staffs : Engage(v, st)
    \/ \E s \in Sessions : CloseCall("c1", s, Null, FALSE, TRUE)
    \/ CloseSnapshotReturn("c1", NoMessage, TRUE, TRUE)
    \/ CloseRemoveReturn("c1", TRUE)
    \/ CloseDeleteReturn("c1", TRUE)
    \/ CloseTriggerReturn("c1", TRUE)
    \/ CloseDone("c1", TRUE)
    \/ Start
    \/ Tick
    \/ \E out \in FetchedMessages : FetchReturn(out)
    \/ \E res \in {"result", "none", "raised"} : AiReturn(res)

Spec == Init /\ [][Next]_vars

\* one close at a time, every input and every collaborator outcome
CloseNext ==
    \/ Advance
    \/ \E v \in Visitors, st \in Staffs \cup {Null} : Engage(v, st)
    \/ \E s \in Sessions, st \in Staffs : AssignStaff(s, st)
    \/ \E s \in Sessions, closer \in Staffs \cup {Null},
          notify \in BOOLEAN, auto \in BOOLEAN :
           CloseCall("c1", s, closer, notify, auto)
    \/ \E out \in ChannelLastMessages, db_ok \in BOOLEAN, cm_ok \in BOOLEAN :
           CloseSnapshotReturn("c1", out, db_ok, cm_ok)
    \/ \E ok \in BOOLEAN : CloseRemoveReturn("c1", ok)
    \/ \E ok \in BOOLEAN : CloseNotifyReturn("c1", ok)
    \/ \E ok \in BOOLEAN : CloseDeleteReturn("c1", ok)
    \/ \E ok \in BOOLEAN : CloseTriggerReturn("c1", ok)
    \/ \E commit \in BOOLEAN : CloseDone("c1", commit)

CloseSpec == Init /\ [][CloseNext]_vars

\* two closes at once, each holding its own copy of the session
RaceNext ==
    \/ Advance
    \/ \E v \in Visitors, st \in Staffs \cup {Null} : Engage(v, st)
    \/ \E s \in Sessions, st \in Staffs : AssignStaff(s, st)
    \/ \E c \in Calls, s \in Sessions : CloseCall(c, s, Null, TRUE, TRUE)
    \/ \E c \in Calls, out \in NoLastMessage : CloseSnapshotReturn(c, out, TRUE, TRUE)
    \/ \E c \in Calls, ok \in BOOLEAN : CloseRemoveReturn(c, ok)
    \/ \E c \in Calls, ok \in BOOLEAN : CloseNotifyReturn(c, ok)
    \/ \E c \in Calls, ok \in BOOLEAN : CloseDeleteReturn(c, ok)
    \/ \E c \in Calls, ok \in BOOLEAN : CloseTriggerReturn(c, ok)
    \/ \E c \in Calls, commit \in BOOLEAN : CloseDone(c, commit)

RaceSpec == Init /\ [][RaceNext]_vars

\* start and stop calls in any order, two stop calls at a time, around ticks
LifeNext ==
    \/ Advance
    \/ InboundMessage("v1", "visitor", FALSE)
    \/ Engage("v1", "st1")
    \/ Start
    \/ \E k \in StopCalls : Stop(k)
    \/ \E k \in StopCalls : StopReturn(k)
    \/ Tick
    \/ \E out \in FetchedMessages : FetchReturn(out)
    \/ \E res \in {"result", "none", "raised"} : AiReturn(res)
    \/ SweepRaises

LifeSpec == Init /\ [][LifeNext]_vars

\* a started loop that nobody stops; the sleep ends and the collaborators answer
LiveNext ==
    \/ Advance
    \/ InboundMessage("v1", "visitor", FALSE)
    \/ Engage("v1", "st1")
    \/ Start
    \/ Tick
    \/ \E out \in FetchedMessages : FetchReturn(out)
    \/ \E res \in {"result", "none", "raised"} : AiReturn(res)
    \/ SweepRaises

LiveSpec ==
    /\ Init
    /\ [][LiveNext]_vars
    /\ WF_vars(Tick)
    /\ WF_vars(\E out \in FetchedMessages : FetchReturn(out))
    /\ WF_vars(\E res \in {"result", "none", "raised"} : AiReturn(res))

\* Two visitors, on one assist platform or on two, each in an open session
\* with the staff member; v2 has just sent a message, v1 none yet.
SweepInit ==
    /\ now = 0
    /\ platform = [p \in Platforms |-> PlatformRows["p1"]]
    /\ \E p \in Platforms :
           visitor = [v \in Visitors |->
               IF v = "v1"
               THEN [NewVisitor("p1") EXCEPT !.service_status = "active"]
               ELSE [NewVisitor(p) EXCEPT !.service_status = "active",
                                          !.is_last_message_from_visitor = TRUE,
                                          !.last_message_at = 0,
                                          !.last_client_msg_no = 1]]
    /\ session = [s \in Sessions |->
           [NoSession EXCEPT !.status = "open",
                             !.visitor_id = IF s = "s1" THEN "v1" ELSE "v2",
                             !.staff_id = "st1", !.created_at = 0]]
    /\ member = [k \in MemberKeys |-> IF k[3] = "staff" THEN 1 ELSE 0]
    /\ close = [c \in Calls |-> IdleCall]
    /\ sched = IdleSched
    /\ unanswered = [v \in Visitors |-> v = "v2"]
    /\ aiFails = [v \in Visitors |-> 0]
    /\ event = NoEvent
    /\ life = NoLoop
    /\ calc = NoCalc
    /\ ensure = [e \in Calls |-> IdleEnsure]
    /\ twin = IdleSched

\* ticks over several candidates and platforms, with every outcome of a step
SweepNext ==
    \/ Advance
    \/ \E reset \in BOOLEAN : InboundMessage("v1", "visitor", reset)
    \/ Start
    \/ Tick
    \/ \E out \in FetchedMessages : FetchReturn(out)
    \/ \E res \in {"result", "none", "raised"} : AiReturn(res)
    \/ SweepRaises

SweepSpec == SweepInit /\ [][SweepNext]_vars

\* a tick over two candidates of one platform while messages of the visitor
\* and of the staff member are recorded for v1
FlagInit == SweepInit /\ visitor["v2"].platform_id = "p1"

FlagNext ==
    \/ Advance
    \/ \E sender \in {"visitor", "staff"} : InboundMessage("v1", sender, FALSE)
    \/ Start
    \/ Tick
    \/ \E out \in FetchedMessages : FetchReturn(out)
    \/ \E res \in {"result", "none", "raised"} : AiReturn(res)

FlagSpec == FlagInit /\ [][FlagNext]_vars

\* Both visitors on the assist platform with a message of theirs recorded at
\* time 0, each in an open session with the staff member.
StalledInit ==
    /\ now = 0
    /\ platform = [p \in Platforms |-> PlatformRows["p1"]]
    /\ visitor = [v \in Visitors |->
           [NewVisitor("p1") EXCEPT !.service_status = "active",
                                    !.is_last_message_from_visitor = TRUE,
                                    !.last_message_at = 0,
                                    !.last_client_msg_no =
                                        IF v = "v1" THEN 1 ELSE 2]]
    /\ session = [s \in Sessions |->
           [NoSession EXCEPT !.status = "open",
                             !.visitor_id = IF s = "s1" THEN "v1" ELSE "v2",
                             !.staff_id = "st1", !.created_at = 0]]
    /\ member = [k \in MemberKeys |-> IF k[3] = "staff" THEN 1 ELSE 0]
    /\ close = [c \in Calls |-> IdleCall]
    /\ sched = IdleSched
    /\ unanswered = [v \in Visitors |-> TRUE]
    /\ aiFails = [v \in Visitors |-> 0]
    /\ event = NoEvent
    /\ life = NoLoop
    /\ calc = NoCalc
    /\ ensure = [e \in Calls |-> IdleEnsure]
    /\ twin = IdleSched

\* ticks and the close of v1's session, in any interleaving
TickCloseNext ==
    \/ Advance
    \/ Start
    \/ Tick
    \/ \E out \in FetchedMessages : FetchReturn(out)
    \/ \E res \in {"result", "none", "raised"} : AiReturn(res)
    \/ \E auto \in BOOLEAN : CloseCall("c1", "s1", Null, FALSE, auto)
    \/ CloseSnapshotReturn("c1", NoMessage, TRUE, TRUE)
    \/ CloseRemoveReturn("c1", TRUE)
    \/ CloseDeleteReturn("c1", TRUE)
    \/ CloseTriggerReturn("c1", TRUE)
    \/ \E commit \in BOOLEAN : CloseDone("c1", commit)

TickCloseSpec == StalledInit /\ [][TickCloseNext]_vars

\* a message of the visitor is recorded while the AI call of line 157 for its
\* earlier message is awaited
InboundInFlight(v) ==
    /\ sched.pc = "ai"
    /\ sched.cur = v
    /\ InboundMessage(v, "visitor", FALSE)

\* ticks over two stalled visitors; a visitor sends a new message only while
\* the AI call for its earlier message is in flight
InFlightNext ==
    \/ Advance
    \/ Start
    \/ Tick
    \/ \E out \in FetchedMessages : FetchReturn(out)
    \/ \E res \in {"result", "none", "raised"} : AiReturn(res)
    \/ \E v \in Visitors : InboundInFlight(v)

InFlightSpec == StalledInit /\ [][InFlightNext]_vars

\* a started loop over stalled visitors whom nobody else touches: no new
\* message, no close; the sleep ends, time passes and the collaborators answer
BudgetNext ==
    \/ Advance
    \/ Start
    \/ Tick
    \/ \E out \in FetchedMessages : FetchReturn(out)
    \/ \E res \in {"result", "none", "raised"} : AiReturn(res)

BudgetSpec ==
    /\ StalledInit
    /\ [][BudgetNext]_vars
    /\ WF_vars(Advance)
    /\ WF_vars(Start)
    /\ WF_vars(Tick)
    /\ WF_vars(\E out \in FetchedMessages : FetchReturn(out))
    /\ WF_vars(\E res \in {"result", "none", "raised"} : AiReturn(res))

\* one loop, started, cancelled by a stop call at any of its awaits and
\* started again, over two stalled visitors
CancelNext ==
    \/ Advance
    \/ Start
    \/ Stop("x1")
    \/ StopReturn("x1")
    \/ Tick
    \/ \E out \in FetchedMessages : FetchReturn(out)
    \/ \E res \in {"result", "none", "raised"} : AiReturn(res)

CancelSpec == StalledInit /\ [][CancelNext]_vars

\* start and stop calls in any order around the ticks of the loops they leave
\* alive, with one visitor stalled
LoopsNext ==
    \/ Advance
    \/ Start
    \/ \E k \in StopCalls : Stop(k)
    \/ \E k \in StopCalls : StopReturn(k)
    \/ Tick
    \/ \E out \in FetchedMessages : FetchReturn(out)
    \/ \E res \in {"result", "none", "raised"} : AiReturn(res)
    \/ TwinTick
    \/ \E out \in FetchedMessages : TwinFetchReturn(out)
    \/ \E res \in {"result", "none", "raised"} : TwinAiReturn(res)

LoopsSpec == FlagInit /\ [][LoopsNext]_vars

\* a visitor whose message of time 0 has had no answer
StalledVisitor(p, id) ==
    [NewVisitor(p) EXCEPT !.service_status = "active",
                          !.is_last_message_from_visitor = TRUE,
                          !.last_message_at = 0,
                          !.last_client_msg_no = id]

\* the rows the visitor query meets: a stalled visitor, and the same row with
\* one column that a filter of lines 86-93 reads set otherwise
VisitorRows(p) ==
    LET row == StalledVisitor(p, 2)
    IN {row}
       \cup {[row EXCEPT !.service_status = x] : x \in {"new", "queued", "closed"}}
       \cup {[row EXCEPT !.is_last_message_from_visitor = FALSE]}
       \cup {[row EXCEPT !.last_message_at = x] : x \in {NONE, 1}}
       \cup {[row EXCEPT !.last_client_msg_no = NoId]}
       \cup {[row EXCEPT !.ai_fallback_retry_count = MAX_AI_FALLBACK_RETRIES]}
       \cup {[row EXCEPT !.deleted = TRUE]}
       \cup {[row EXCEPT !.ai_disabled = x] : x \in {"true", "false"}}

\* the rows the platform query meets, likewise for lines 64-67
PlatformVariants ==
    LET row == PlatformRows["p1"]
    IN {row, [row EXCEPT !.ai_mode = "auto"],
        [row EXCEPT !.fallback_to_ai_timeout = 0],
        [row EXCEPT !.is_active = FALSE], [row EXCEPT !.deleted = TRUE]}

\* v1 is stalled on the assist platform p1; v2 is any of the visitor rows, on
\* p1 or on p2, and p2 is any of the platform rows
FilterInit ==
    /\ now = 0
    /\ \E row \in PlatformVariants :
           platform = [p \in Platforms |->
                          IF p = "p1" THEN PlatformRows["p1"] ELSE row]
    /\ \E p \in Platforms : \E row \in VisitorRows(p) :
           visitor = [v \in Visitors |->
                         IF v = "v1" THEN StalledVisitor("p1", 1) ELSE row]
    /\ session = [s \in Sessions |->
           [NoSession EXCEPT !.status = "open",
                             !.visitor_id = IF s = "s1" THEN "v1" ELSE "v2",
                             !.staff_id = "st1", !.created_at = 0]]
    /\ member = [k \in MemberKeys |-> IF k[3] = "staff" THEN 1 ELSE 0]
    /\ close = [c \in Calls |-> IdleCall]
    /\ sched = IdleSched
    /\ unanswered = [v \in Visitors |-> visitor[v].is_last_message_from_visitor]
    /\ aiFails = [v \in Visitors |->
           IF visitor[v].ai_fallback_retry_count = MAX_AI_FALLBACK_RETRIES
           THEN MAX_AI_FALLBACK_RETRIES ELSE 0]
    /\ event = NoEvent
    /\ life = NoLoop
    /\ calc = NoCalc
    /\ ensure = [e \in Calls |-> IdleEnsure]
    /\ twin = IdleSched

\* ticks over these rows, with every answer of the collaborators
FilterNext ==
    \/ Advance
    \/ Start
    \/ Tick
    \/ \E out \in FetchedMessages : FetchReturn(out)
    \/ \E res \in {"result", "none", "raised"} : AiReturn(res)

FilterSpec == FilterInit /\ [][FilterNext]_vars

\* ensure_visitor_channel for v1, two calls at a time, around the opening and
\* the close of v1's sessions
MemberNext ==
    \/ \E e \in Calls : EnsureCall(e, "v1")
    \/ \E e \in Calls, ok \in BOOLEAN, db_ok \in BOOLEAN : EnsureReturn(e, ok, db_ok)
    \/ \E st \in Staffs \cup {Null} : Engage("v1", st)
    \/ \E s \in Sessions, st \in Staffs : AssignStaff(s, st)
    \/ \E s \in Sessions, auto \in BOOLEAN : CloseCall("c1", s, Null, FALSE, auto)
    \/ \E out \in NoLastMessage, db_ok \in BOOLEAN, cm_ok \in BOOLEAN :
           CloseSnapshotReturn("c1", out, db_ok, cm_ok)
    \/ \E ok \in BOOLEAN : CloseRemoveReturn("c1", ok)
    \/ \E ok \in BOOLEAN : CloseDeleteReturn("c1", ok)
    \/ \E ok \in BOOLEAN : CloseTriggerReturn("c1", ok)
    \/ \E commit \in BOOLEAN : CloseDone("c1", commit)

MemberSpec == Init /\ [][MemberNext]_vars

\* ------------------------------------------------- calls of the codec
\* the code points of the short strings: NUL, "0", "a" and e-acute
CodecAlphabet == {0, 48, 97, 233}

ShortStrings == UNION {[1..n -> CodecAlphabet] : n \in 0..MaxLen}

Repeat(ch, n) == [i \in 1..n |-> ch]

\* str(uuid) of a version 4 UUID: 8-4-4-4-12 lower-case hexadecimal digits
UuidString(c1, c2, c3) ==
    <<c1>> \o Repeat(Chr("0"), 7) \o <<Chr("-")>> \o Repeat(Chr("0"), 4)
        \o <<Chr("-"), Chr("4")>> \o Repeat(Chr("0"), 3)
        \o <<Chr("-"), Chr("8"), c2>> \o Repeat(Chr("0"), 2)
        \o <<Chr("-")>> \o Repeat(Chr("0"), 11) \o <<c3>>

HexDigits == {Chr("0"), Chr("9"), Chr("a"), Chr("f")}

UuidStrings == {UuidString(c1, c2, c3) : c1, c2, c3 \in HexDigits}

\* "plumless" and "buckeroo" have one CRC-32, 0x4DDB0C25
Plumless == <<112, 108, 117, 109, 108, 101, 115, 115>>
Buckeroo == <<98, 117, 99, 107, 101, 114, 111, 111>>

Uids == {Plumless, Buckeroo, <<97>>, <<98>>, <<>>}

\* personal, group and customer-service channels
ChannelTypes == {1, 2, 251}

\* what decode_channel_id is given: the encoder's outputs, the empty string,
\* " 0 ", "1!" (a character outside the alphabet) and "3H" (the byte 0xC8)
Encoded ==
    {encode_channel_id(str) : str \in ShortStrings}
        \cup {<<>>, <<32, 48, 32>>, <<49, 33>>, <<51, 72>>}

Encode(raw_string) ==
    /\ calc = NoCalc
    /\ calc' = [fn |-> "encode_channel_id", args |-> <<raw_string>>,
                out |-> encode_channel_id(raw_string), raised |-> FALSE]
    /\ UNCHANGED <<now, platform, visitor, session, member, close, ensure, twin, sched,
                   unanswered, aiFails, event, life>>

Decode(encoded) ==
    /\ calc = NoCalc
    /\ LET res == decode_channel_id(encoded)
       IN calc' = [fn |-> "decode_channel_id", args |-> <<encoded>>,
                   out |-> res.out, raised |-> res.raised]
    /\ UNCHANGED <<now, platform, visitor, session, member, close, ensure, twin, sched,
                   unanswered, aiFails, event, life>>

SessionId(from_uid, to_uid, channel_type) ==
    /\ calc = NoCalc
    /\ calc' = [fn |-> "get_session_id",
                args |-> <<from_uid, to_uid, <<channel_type>>>>,
                out |-> get_session_id(from_uid, to_uid, channel_type),
                raised |-> FALSE]
    /\ UNCHANGED <<now, platform, visitor, session, member, close, ensure, twin, sched,
                   unanswered, aiFails, event, life>>

\* version 4 UUIDs that differ in their first, 18th and last digit
UuidDigits == {0, 9, 10, 15}

UuidValue(d1, d2, d3) ==
    [i \in 1..32 |->
        CASE i = 1 -> d1 [] i = 13 -> 4 [] i = 17 -> 8 [] i = 18 -> d2
          [] i = 32 -> d3 [] OTHER -> 0]

Uuids == {UuidValue(d1, d2, d3) : d1, d2, d3 \in UuidDigits}

\* what build_visitor_channel_id is given: a UUID or its str
VisitorIds == {Uuid(u) : u \in Uuids} \cup {Str(UuidStr(u)) : u \in Uuids}

\* Other spellings of a UUID before the suffix: no hyphens, upper case, in
\* braces, as a URN; one digit short, a letter that is no digit; a sign, a
\* "0x", a blank or an underscore in the place of digits.
Spellings(u) ==
    LET canon == UuidStr(u)
        hex == Remove(canon, <<45>>)
    IN {canon, hex,
        [i \in 1..36 |-> IF canon[i] >= 97 THEN canon[i] - 32 ELSE canon[i]],
        <<123>> \o canon \o <<125>>,
        <<117, 114, 110, 58, 117, 117, 105, 100, 58>> \o canon,
        SubSeq(canon, 1, 35),
        <<103>> \o Tail(canon),
        <<43>> \o Tail(hex),
        <<48, 120>> \o SubSeq(hex, 3, 32),
        <<32>> \o Tail(hex),
        SubSeq(hex, 1, 30) \o <<95, hex[32]>>}

OddUuids == {UuidValue(d, 9, 15) : d \in {0, 10}}

\* what parse_visitor_channel_id is given: visitor channel ids, project-staff
\* channel ids, ids without a suffix, the empty string, the bare suffix, other
\* spellings of the UUID, a bytes object and None
ChannelIds ==
    {Str(BuildVisitorChannelId(Uuid(u))) : u \in Uuids}
        \cup {Str(build_project_staff_channel_id(Uuid(u))) : u \in OddUuids}
        \cup {Str(UuidStr(u)) : u \in OddUuids}
        \cup {Str(<<>>), Str(VisitorSuffix)}
        \cup UNION {{Str(body \o VisitorSuffix) : body \in Spellings(u)} :
                       u \in OddUuids}
        \cup {[type |-> "bytes", value |-> BuildVisitorChannelId(Uuid(u))] :
                 u \in OddUuids}
        \cup {[type |-> "NoneType", value |-> <<>>]}

Build(visitor_id) ==
    /\ calc = NoCalc
    /\ calc' = [fn |-> "build_visitor_channel_id", args |-> <<visitor_id>>,
                out |-> BuildVisitorChannelId(visitor_id), raised |-> FALSE]
    /\ UNCHANGED <<now, platform, visitor, session, member, close, ensure, twin, sched,
                   unanswered, aiFails, event, life>>

Parse(channel_id) ==
    /\ calc = NoCalc
    /\ LET res == parse_visitor_channel_id(channel_id)
       IN calc' = [fn |-> "parse_visitor_channel_id", args |-> <<channel_id>>,
                   out |-> res.value, raised |-> res.raised]
    /\ UNCHANGED <<now, platform, visitor, session, member, close, ensure, twin, sched,
                   unanswered, aiFails, event, life>>

\* the call has returned and its result has been consumed
Return ==
    /\ calc # NoCalc
    /\ calc' = NoCalc
    /\ UNCHANGED <<now, platform, visitor, session, member, close, ensure, twin, sched,
                   unanswered, aiFails, event, life>>

CodecNext ==
    \/ \E raw_string \in ShortStrings \cup UuidStrings : Encode(raw_string)
    \/ \E encoded \in Encoded : Decode(encoded)
    \/ \E from_uid \in Uids, to_uid \in Uids, channel_type \in ChannelTypes :
           SessionId(from_uid, to_uid, channel_type)
    \/ \E visitor_id \in VisitorIds : Build(visitor_id)
    \/ \E channel_id \in ChannelIds : Parse(channel_id)
    \/ Return

CodecSpec == Init /\ [][CodecNext]_vars

\* ------------------------------------------------------------ properties
\* the step in which call c gets the answer to its last-message query and runs
\* lines 66-126
SnapshotStep(c) == close[c].pc = "snapshot" /\ close'[c].pc # "snapshot"

DbUnchanged == UNCHANGED <<visitor, session, member>>

\* C1: a close of a session that is already closed raises the already-closed
\* error and has no side effect: no session, visitor or ChannelMember field
\* changes, nothing is written in the caller's transaction, no bus call and no
\* queue trigger is issued; so the second of two closes in a row fails and adds
\* nothing.
C1_AlreadyClosedRaises ==
    [][\A c \in Calls :
        /\ (/\ close[c].pc = "idle"
            /\ close'[c].pc # "idle"
            /\ session[close'[c].sid].status = "closed")
           => /\ close'[c].pc = "raised"
              /\ close'[c].error = "already_closed"
              /\ close'[c].issued = <<>>
              /\ close'[c].notice = <<>>
              /\ close'[c].pending = {}
              /\ DbUnchanged
        /\ (close[c].error = "already_closed" /\ close'[c] # close[c])
           => close'[c] = IdleCall /\ DbUnchanged]_vars

C1_Witness ==
    \E c \in Calls : /\ close[c].error = "already_closed"
                     /\ session[close[c].sid].closed_at # NONE

\* C2: after any successful close the session is closed with closed_at
\* stamped, the visitor's service_status is closed, and the visitor has no open
\* session left.
C2_ClosedLeavesNoOpenSession ==
    [][\A c \in Calls :
        (SnapshotStep(c) /\ close[c].auto /\ close'[c].error = Null)
        => LET s == close[c].sid
               v == close[c].copy.visitor_id
           IN /\ session'[s].status = "closed"
              /\ session'[s].closed_at # NONE
              /\ visitor'[v].service_status = "closed"
              /\ OpenSessionsOf(session', v) = {}]_vars

\* C3: when the last-message query of step 1 throws, the session is still
\* closed, closed_at and duration_seconds are still set and the visitor is
\* still closed; the session only carries no snapshot.
C3_SnapshotFailureTolerated ==
    [][\A c \in Calls :
        (SnapshotStep(c) /\ close'[c].failed /\ close'[c].error # "commit_failed")
        => LET s == close[c].sid
               loaded == close[c].copy
               after == close'[c].copy
               v == loaded.visitor_id
           IN /\ after.status = "closed"
              /\ after.closed_at = now
              /\ after.duration_seconds = now - loaded.created_at
              /\ after.last_message_seq = loaded.last_message_seq
              /\ after.last_message_at = loaded.last_message_at
              /\ after.visitor_id = loaded.visitor_id
              /\ after.created_at = loaded.created_at
              /\ IF close[c].auto
                 THEN /\ session'[s] = after
                      /\ visitor'[v].service_status = "closed"
                 ELSE "close" \in close'[c].pending]_vars

C3_Witness ==
    \E c \in Calls : /\ close[c].pc = "returned"
                     /\ close[c].failed
                     /\ close[c].issued = <<"last_message">>
                     /\ close[c].copy.status = "closed"
                     /\ close[c].copy.duration_seconds = 1
                     /\ close[c].copy.last_message_seq = NONE

\* C4: once step 2 has persisted, no failure of a later step (ChannelMember
\* soft delete, subscriber removal, notification, conversation deletion, queue
\* trigger) aborts the close: the call raises only for the guard or for the
\* persistence of step 2.
C4_LaterFailuresNeverAbort ==
    \A c \in Calls :
        close[c].pc = "raised" => close[c].error \in {"already_closed", "commit_failed"}

IssuedSteps(c) == {close[c].issued[i] : i \in 1..Len(close[c].issued)}

\* C5 as stated: the closed state is committed before any later step runs, so
\* no bus step is issued while the close is uncommitted; a failed persistence
\* fails the call with none of them issued.
C5_CommittedBeforeLaterSteps ==
    \A c \in Calls :
        /\ IssuedSteps(c) \cap BusSteps # {}
           => /\ session[close[c].sid].status = "closed"
              /\ "close" \notin close[c].pending
        /\ close[c].error = "commit_failed"
           => close[c].pc = "raised" /\ IssuedSteps(c) \cap BusSteps = {}

\* C5: with auto_commit the closed state of the session and of the visitor is
\* committed before any bus step is issued; without it the close is flushed in
\* the caller's transaction, uncommitted, when the bus steps are issued. Either
\* way a failed persistence fails the call with no bus step issued and nothing
\* written.
C5_CommittedBeforeLaterStepsWhenAutoCommit ==
    /\ [](\A c \in Calls :
            /\ (close[c].auto /\ IssuedSteps(c) \cap BusSteps # {})
               => /\ session[close[c].sid].status = "closed"
                  /\ close[c].pending \subseteq {"member"}
            /\ (~close[c].auto /\ IssuedSteps(c) \cap BusSteps # {})
               => "close" \in close[c].pending
            /\ close[c].error = "commit_failed"
               => /\ close[c].pc = "raised"
                  /\ IssuedSteps(c) \cap BusSteps = {}
                  /\ close[c].pending = {})
    /\ [][\A c \in Calls :
            /\ (SnapshotStep(c) /\ close[c].auto
                    /\ IssuedSteps(c)' \cap BusSteps # {})
               => visitor'[close[c].copy.visitor_id].service_status = "closed"
            /\ (SnapshotStep(c) /\ close'[c].error = "commit_failed")
               => DbUnchanged]_vars

C5_Witness ==
    \E c \in Calls : /\ close[c].auto
                     /\ "remove" \in IssuedSteps(c)
                     /\ session[close[c].sid].status = "closed"
                     /\ visitor[close[c].copy.visitor_id].service_status = "closed"

OtherwiseEligible(v) ==
    /\ visitor[v].service_status = "active"
    /\ visitor[v].is_last_message_from_visitor
    /\ visitor[v].last_message_at # NONE
    /\ visitor[v].last_message_at
           < now - platform[visitor[v].platform_id].fallback_to_ai_timeout
    /\ visitor[v].last_client_msg_no # NoId
    /\ ~visitor[v].deleted
    /\ visitor[v].ai_disabled \in {Null, "false"}
    /\ IsAssistPlatform(platform[visitor[v].platform_id])

\* the step in which a tick picks v as a candidate of its platform query
Selected(v) ==
    /\ sched'.pc = "fetch"
    /\ v \in {sched'.cur} \cup sched'.queue
    /\ v \notin sched.queue
    /\ sched.pc \in {"fetch", "ai"} => sched.cur # v

\* the step in which the AI collaborator is invoked for v
AiInvoked(v) == sched.pc = "fetch" /\ sched'.pc = "ai" /\ sched.cur = v

\* C7: a visitor whose AI calls failed three times in a row has retry count 3
\* and is from then on neither selected as a candidate nor AI-invoked, even
\* when every other filter of the query holds.
C7_ExhaustedNeverSelected ==
    /\ [](\A v \in Visitors :
            aiFails[v] = 3
            => /\ visitor[v].ai_fallback_retry_count = 3
               /\ \A p \in Platforms :
                      ~IsCandidate(visitor[v], p, now - platform[p].fallback_to_ai_timeout))
    /\ [][\A v \in Visitors :
            aiFails[v] = 3 => ~Selected(v) /\ ~AiInvoked(v)]_vars

C7_Witness ==
    /\ aiFails["v1"] = 3
    /\ OtherwiseEligible("v1")
    /\ sched.pc = "sleep"

\* C8: after the AI call for a visitor succeeded, is_last_message_from_visitor
\* is false, and the AI is not invoked for that visitor again until a new
\* visitor message is recorded.
C8_NoSecondInvocation ==
    [][\A v \in Visitors :
        /\ AiInvoked(v) => unanswered[v]
        /\ (sched.pc = "ai" /\ sched.cur = v /\ event'.kind = "ai_result"
                /\ ~unanswered'[v])
           => /\ ~visitor'[v].is_last_message_from_visitor
              /\ \A p \in Platforms :
                     ~IsCandidate(visitor'[v], p, now - platform[p].fallback_to_ai_timeout)]_vars

C8_Witness ==
    /\ ~unanswered["v1"]
    /\ visitor["v1"].is_last_message_from_ai
    /\ visitor["v1"].service_status = "active"
    /\ StaffedSessions("v1") # {}
    /\ visitor["v1"].last_message_at < now - platform["p1"].fallback_to_ai_timeout
    /\ sched.pc = "sleep"
    /\ event.kind = "none"

\* C9: for a candidate whose stalled message is recovered with text and who has
\* an open session with staff S, the AI is invoked with that text, from_uid
\* "S-staff" and an id nobody holds; when it answers with a result, one write
\* sets is_last_message_from_ai, clears is_last_message_from_visitor, stores
\* that id as last_client_msg_no and zeroes the retry count.
C9_InvocationAndSuccessWrite ==
    [][\A v \in Visitors :
        /\ AiInvoked(v)
           => /\ sched'.fetched \in Texts
              /\ sched'.request.message = sched'.fetched
              /\ sched'.request.from_uid \in
                     {session[s].staff_id \o "-staff" : s \in StaffedSessions(v)}
              /\ sched'.request.client_msg_no # NoId
              /\ sched'.request.client_msg_no \notin UsedIds
        /\ (sched.pc = "fetch" /\ sched.cur = v /\ event'.kind = "no_staff")
           => StaffedSessions(v) = {}
        /\ (sched.pc = "ai" /\ sched.cur = v /\ event'.kind = "ai_result")
           => /\ visitor'[v].is_last_message_from_ai
              /\ ~visitor'[v].is_last_message_from_visitor
              /\ visitor'[v].last_client_msg_no = sched.request.client_msg_no
              /\ visitor'[v].ai_fallback_retry_count = 0
              /\ \A f \in DOMAIN visitor[v] \ {"is_last_message_from_ai",
                        "is_last_message_from_visitor", "last_client_msg_no",
                        "ai_fallback_retry_count"} :
                     visitor'[v][f] = visitor[v][f]]_vars

C9_Witness ==
    /\ event = [kind |-> "ai_result", visitor |-> "v1"]
    /\ visitor["v1"].is_last_message_from_ai
    /\ ~visitor["v1"].is_last_message_from_visitor
    /\ visitor["v1"].last_client_msg_no # NoId
    /\ visitor["v1"].ai_fallback_retry_count = 0

GoesOn(v) ==
    /\ sched'.pc \in {"fetch", "sleep"}
    /\ sched'.task
    /\ sched.queue # {}
       => /\ sched'.pc = "fetch"
          /\ sched'.cur \in sched.queue
          /\ sched'.platform = sched.platform
          /\ sched'.queue = sched.queue \ {sched'.cur}
    /\ (sched.queue = {} /\ sched'.pc = "fetch")
       => /\ sched'.platform \in sched.plats
          /\ sched'.cur \in Candidates(visitor', sched'.platform)
    /\ sched'.pc = "sleep"
       => \A q \in sched.plats : Candidates(visitor', q) = {}

\* the columns of a visitor row other than those in `cols` keep their values
OnlyChanged(v, cols) ==
    \A f \in DOMAIN visitor[v] \ cols : visitor'[v][f] = visitor[v][f]

\* C11: when the re-fetch of the candidate's message returns nothing, or a
\* message without content, the retry count is set to MAX, the AI is not
\* invoked for the visitor and the tick goes on to the next candidate.
C11_UnrecoverableExhausts ==
    [][\A v \in Visitors :
        (sched.pc = "fetch" /\ sched.cur = v
            /\ event'.kind \in {"no_message", "no_content"})
        => /\ visitor'[v].ai_fallback_retry_count = 3
           /\ OnlyChanged(v, {"ai_fallback_retry_count"})
           /\ sched'.pc # "ai"
           /\ sched'.request = NoRequest
           /\ v \notin sched'.queue
           /\ GoesOn(v)]_vars

C11_Witness ==
    /\ event = [kind |-> "no_content", visitor |-> "v1"]
    /\ visitor["v1"].ai_fallback_retry_count = 3
    /\ sched.pc = "fetch"
    /\ sched.cur = "v2"

C16_TickNeverAborted ==
    [][(sched.pc \in {"fetch", "ai"} /\ sched'.task /\ sched'.pc = "sleep")
        => /\ sched.queue = {}
           /\ \A q \in sched.plats : Candidates(visitor', q) = {}]_vars

\* C13: whatever the order and interleaving of start and stop calls, at most
\* one loop task is alive.
C13_AtMostOneLoop == life.loops <= 1

\* C14: stop cancels the loop and clears the handle: when a stop call returns
\* no loop is left, and while the handle is clear (until the next start) no
\* loop is alive to begin a tick.
C14_StopLeavesNoLoop ==
    /\ [](life.handle = "none" => life.loops = 0 /\ ~sched.task)
    /\ [][(\E k \in StopCalls : k \in life.stopping /\ k \notin life'.stopping)
            => life'.handle = "none" /\ life'.loops = 0]_vars

\* C15: while the scheduler is started and not stopped, no exception inside a
\* tick ends the loop: every tick, failed or not, ends with the loop asleep,
\* from where the next tick begins; the loop task is alive for ever.
C15_TicksRecur ==
    /\ [][sched.task => sched'.task]_vars
    /\ [][(sched.pc \in {"fetch", "ai"} /\ sched'.pc \notin {"fetch", "ai"})
            => sched'.task /\ sched'.pc = "sleep"]_vars
    /\ (life.loops > 0) ~> (sched.task /\ sched.pc = "sleep")

C15_Witness ==
    /\ event.kind = "tick_raised"
    /\ life.handle = "live"
    /\ sched.task
    /\ sched.pc = "sleep"

\* C17: for a personal channel (channel type 1) the session id does not
\* depend on which of the two uids initiates, whether the uids are equal or
\* not and whether their CRC-32 values collide or not.
C17_SessionIdSymmetric ==
    (calc.fn = "get_session_id" /\ calc.args[3] = <<1>>)
        => calc.out = get_session_id(calc.args[2], calc.args[1], 1)

C17_Witness ==
    /\ calc.fn = "get_session_id"
    /\ calc.args[3] = <<1>>
    /\ calc.args[1] # calc.args[2]
    /\ crc32(Utf8Encode(calc.args[1])) = crc32(Utf8Encode(calc.args[2]))
    /\ calc.out = At(Plumless, Buckeroo)

UuidCodes == [u \in UuidStrings |-> encode_channel_id(u)]

\* C18: decoding the encoding of a UUID string gives the UUID string back,
\* and no other UUID string has the same encoding.
C18_UuidBijection ==
    (calc.fn = "encode_channel_id" /\ calc.args[1] \in UuidStrings)
        => /\ decode_channel_id(calc.out)
                  = [raised |-> FALSE, out |-> calc.args[1]]
           /\ \A u \in UuidStrings : UuidCodes[u] = calc.out => u = calc.args[1]

C18_Witness ==
    /\ calc.fn = "encode_channel_id"
    /\ calc.args[1] = UuidString(Chr("f"), Chr("9"), Chr("a"))
    /\ Len(calc.out) = 49
    /\ ~calc.raised

\* C19: decoding the encoding of any string gives the string back, also when
\* the string begins with NUL characters.
C19_RoundTrip ==
    calc.fn = "encode_channel_id"
        => decode_channel_id(calc.out) = [raised |-> FALSE, out |-> calc.args[1]]

\* C20: the empty string encodes to "0", "0" decodes to the empty string, and
\* no other string encodes to "0".
C20_OnlyEmptyEncodesToZero ==
    /\ calc.fn = "encode_channel_id"
           => (calc.out = <<Chr("0")>> <=> calc.args[1] = <<>>)
    /\ (calc.fn = "decode_channel_id" /\ calc.args[1] = <<Chr("0")>>)
           => (~calc.raised /\ calc.out = <<>>)

\* C21: for every UUID u, build_visitor_channel_id(u) is str(u) followed by
\* "-vtr", and parse_visitor_channel_id of it returns u.
C21_ChannelIdRoundTrip ==
    (calc.fn = "build_visitor_channel_id" /\ calc.args[1].type = "UUID")
        => /\ calc.out = UuidStr(calc.args[1].value) \o <<45, 118, 116, 114>>
           /\ parse_visitor_channel_id(Str(calc.out))
                  = [raised |-> FALSE, value |-> calc.args[1].value]

\* a UUID with letters among its digits has been built into a channel id
C21_Witness ==
    /\ calc.fn = "build_visitor_channel_id"
    /\ calc.args[1] = Uuid(UuidValue(10, 15, 9))
    /\ Len(calc.out) = 40
    /\ ~calc.raised

\* the text of a UUID: 8-4-4-4-12 hexadecimal digits
CanonicalUuid(body) ==
    /\ Len(body) = 36
    /\ \A i \in 1..36 :
           IF i \in {9, 14, 19, 24} THEN body[i] = 45
           ELSE HexValue(body[i]) # 0 - 1

\* the spellings that uuid.UUID is documented to read: the text of a UUID,
\* in braces or not, as a URN or not, and 32 digits without hyphens
ValidUuid(body) ==
    \/ CanonicalUuid(body)
    \/ Len(body) = 32 /\ \A i \in 1..32 : HexValue(body[i]) # 0 - 1
    \/ /\ Len(body) = 38
       /\ body[1] = 123
       /\ body[38] = 125
       /\ CanonicalUuid(SubSeq(body, 2, 37))
    \/ /\ Len(body) = 45
       /\ SubSeq(body, 1, 9) = <<117, 114, 110, 58, 117, 117, 105, 100, 58>>
       /\ CanonicalUuid(SubSeq(body, 10, 45))

\* C22: parse_visitor_channel_id raises, and returns no UUID, for an input that
\* is not a str, does not end with "-vtr", or has no valid UUID before "-vtr".
C22_MalformedRaises ==
    (/\ calc.fn = "parse_visitor_channel_id"
     /\ \/ calc.args[1].type # "str"
        \/ ~EndsWith(calc.args[1].value, <<45, 118, 116, 114>>)
        \/ ~ValidUuid(SubSeq(calc.args[1].value, 1,
                             Len(calc.args[1].value) - 4)))
        => calc.raised /\ calc.out = <<>>

\* C23: decode_channel_id raises for every input with a character outside
\* 0-9A-Za-z, white space at either end included.
C23_NonAlphabetRaises ==
    (/\ calc.fn = "decode_channel_id"
     /\ \E i \in 1..Len(calc.args[1]) : Base62Find(calc.args[1][i]) = 0 - 1)
        => calc.raised

\* C24: no visitor ever has is_last_message_from_visitor and
\* is_last_message_from_ai both true, and a write of the scheduler that sets
\* either flag clears the other in the same commit.
C24_SenderFlagsExclusive ==
    /\ [](\A v \in Visitors :
            ~(visitor[v].is_last_message_from_visitor
                  /\ visitor[v].is_last_message_from_ai))
    /\ [][\A v \in Visitors :
            (sched.pc \in {"fetch", "ai"} /\ sched' # sched)
            => /\ (visitor'[v].is_last_message_from_ai
                       /\ ~visitor[v].is_last_message_from_ai)
                  => ~visitor'[v].is_last_message_from_visitor
               /\ (visitor'[v].is_last_message_from_visitor
                       /\ ~visitor[v].is_last_message_from_visitor)
                  => ~visitor'[v].is_last_message_from_ai]_vars

\* C30: when the re-fetch of the candidate's message raises, the exception
\* stays inside the tick and the failure is counted as one retry: the
\* visitor's ai_fallback_retry_count is one more than before.
C30_FetchFailureCounted ==
    [][\A v \in Visitors :
        (sched.pc = "fetch" /\ sched.cur = v /\ event'.kind = "fetch_raised")
        => /\ sched'.task
           /\ GoesOn(v)
           /\ visitor'[v].ai_fallback_retry_count
                  = visitor[v].ai_fallback_retry_count + 1]_vars

\* v has been selected by the tick in progress and its AI call is yet to be made
Pending(v) == v \in sched.queue \/ (sched.pc = "fetch" /\ sched.cur = v)

\* C26: once a close has committed (the visitor's row says closed), no tick
\* selects the visitor any more, so the AI is invoked for it at most once
\* more, by the tick that had selected it before; and when the close and the
\* tick are both over, the visitor is closed with a retry count in 0..MAX.
C26_CloseAgainstTick ==
    /\ [](sched.pc \in {"fetch", "ai"} => sched.cur \notin sched.queue)
    /\ [][\A v \in Visitors :
            visitor[v].service_status = "closed"
            => /\ ~Selected(v)
               /\ AiInvoked(v) => Pending(v) /\ ~Pending(v)'
               /\ ~Pending(v) => ~Pending(v)'
               /\ visitor'[v].service_status = "closed"]_vars
    /\ [](\A s \in Sessions :
            (/\ session[s].status = "closed"
             /\ \A c \in Calls : close[c].pc = "idle"
             /\ sched.pc \in {"none", "sleep"})
            => /\ visitor[session[s].visitor_id].service_status = "closed"
               /\ visitor[session[s].visitor_id].ai_fallback_retry_count
                      \in 0..3)

\* the close of v1's session committed while v1 was a selected candidate; the
\* AI call was still made and its result has been written to the closed visitor
C26_Witness ==
    /\ event = [kind |-> "ai_result", visitor |-> "v1"]
    /\ visitor["v1"].service_status = "closed"
    /\ visitor["v1"].is_last_message_from_ai
    /\ session["s1"].status = "closed"
    /\ close["c1"].pc = "idle"
    /\ sched.pc = "sleep"

\* every condition of the platform query and of the visitor query holds for v
Eligible(v) ==
    /\ platform[visitor[v].platform_id].is_active
    /\ ~platform[visitor[v].platform_id].deleted
    /\ platform[visitor[v].platform_id].ai_mode = "assist"
    /\ platform[visitor[v].platform_id].fallback_to_ai_timeout > 0
    /\ visitor[v].service_status = "active"
    /\ visitor[v].is_last_message_from_visitor
    /\ visitor[v].last_message_at # NONE
    /\ visitor[v].last_message_at
           < now - platform[visitor[v].platform_id].fallback_to_ai_timeout
    /\ visitor[v].last_client_msg_no # NoId
    /\ visitor[v].ai_fallback_retry_count < 3
    /\ ~visitor[v].deleted
    /\ visitor[v].ai_disabled # "true"

C25_OneLiveMemberRow == \A k \in MemberKeys : member[k] <= 1
\* the row of v as StalledInit has it
StalledRow(v) == StalledVisitor("p1", IF v = "v1" THEN 1 ELSE 2)

\* C29: cancelling the loop at any of its awaits (the sleep, the message
\* query, the AI call) changes no visitor row, so the updates committed for
\* earlier candidates stay; and every row is at all times either as it was but
\* for the retry count, or carries the whole success update: AI flag set,
\* visitor flag cleared, last_client_msg_no replaced, retry count 0.
C29_CancelLeavesNoPartialUpdate ==
    /\ [](\A v \in Visitors :
            \/ visitor[v] = [StalledRow(v) EXCEPT !.ai_fallback_retry_count =
                                 visitor[v].ai_fallback_retry_count]
            \/ /\ visitor[v] = [StalledRow(v) EXCEPT
                       !.is_last_message_from_ai = TRUE,
                       !.is_last_message_from_visitor = FALSE,
                       !.last_client_msg_no = visitor[v].last_client_msg_no,
                       !.ai_fallback_retry_count = 0]
               /\ visitor[v].last_client_msg_no
                      \notin {NoId, StalledRow(v).last_client_msg_no})
    /\ [][event'.kind \in {"cancelled_sleep", "cancelled_fetch", "cancelled_ai"}
            => visitor' = visitor]_vars

C29_Witness ==
    /\ event.kind = "cancelled_ai"
    /\ event.visitor = "v2"
    /\ sched = IdleSched
    /\ visitor["v1"].is_last_message_from_ai
    /\ visitor["v2"] = StalledRow("v2")

\* a loop is inside a tick, at a candidate
InTick(loop) == loop.pc \in {"fetch", "ai"}

\* C28: no two ticks overlap: at most one loop is inside a tick, so at most
\* one candidate is being processed and at most one AI invocation is in flight.
C28_StrictlySequential ==
    /\ ~(InTick(sched) /\ InTick(twin))
    /\ ~(sched.pc = "ai" /\ twin.pc = "ai")

\* the place of a collaborator call in the order of lines 59-176
StepRank(step) ==
    CASE step = "last_message" -> 1
      [] step = "remove" -> 4
      [] step = "notify" -> 5
      [] step = "delete" -> 6
      [] step = "trigger" -> 7

\* C31: the steps of a close that run, run in the order snapshot, persist,
\* ChannelMember soft delete, subscriber removal, notification, conversation
\* deletion, queue trigger: the collaborator calls are issued in that order,
\* each once, the first is the snapshot, the call in flight is the one issued
\* last, the closed state is persisted before any bus call, and the soft delete
\* of a live staff row is flushed after the persist and before the subscriber
\* removal is requested.
C31_StepsInOrder ==
    /\ [](\A c \in Calls :
            LET seq == close[c].issued
            IN /\ \A i, j \in DOMAIN seq :
                      i < j => StepRank(seq[i]) < StepRank(seq[j])
               /\ seq # <<>> => seq[1] = "last_message"
               /\ close[c].pc \in BusSteps => seq[Len(seq)] = close[c].pc
               /\ close[c].pc = "snapshot" => seq = <<"last_message">>
               /\ (IssuedSteps(c) \cap BusSteps # {} \/ "member" \in close[c].pending)
                  => /\ close[c].copy.status = "closed"
                     /\ IF close[c].auto
                        THEN session[close[c].sid].status = "closed"
                        ELSE "close" \in close[c].pending)
    /\ [][\A c \in Calls :
            (SnapshotStep(c) /\ "remove" \in IssuedSteps(c)'
                /\ member[StaffMemberKey(close'[c].copy)] > 0)
            => "member" \in close'[c].pending]_vars

C31_Witness ==
    \E c \in Calls :
        /\ close[c].pc = "returned"
        /\ close[c].error = Null
        /\ close[c].issued = <<"last_message", "remove", "notify", "delete", "trigger">>
        /\ "member" \in close[c].pending

\* C32: a close posts the session-closed message at most once, and only when
\* send_notification is true; a close that returns has posted it exactly when
\* send_notification is true. With a closing staff member the message is sent
\* as '{closer_id}-staff' with that uid and the closer's display name, without
\* one as 'system' with no staff uid and no name.
C32_ClosedNotification ==
    \A c \in Calls :
        LET call == close[c]
        IN /\ Len(call.notice) <= 1
           /\ call.notice # <<>> => call.notify /\ "notify" \in IssuedSteps(c)
           /\ call.pc = "returned" => (call.notice # <<>> <=> call.notify)
           /\ Len(call.notice) = Cardinality({i \in DOMAIN call.issued :
                                                 call.issued[i] = "notify"})
           /\ call.notice # <<>>
              => IF call.closer # Null
                 THEN /\ call.notice[1].from_uid = call.closer \o "-staff"
                      /\ call.notice[1].staff_uid = call.closer \o "-staff"
                      /\ call.notice[1].staff_name = "Ann"
                 ELSE /\ call.notice[1].from_uid = "system"
                      /\ call.notice[1].staff_uid = Null
                      /\ call.notice[1].staff_name = Null

C32_Witness ==
    \E c \in Calls :
        /\ close[c].pc = "returned"
        /\ close[c].closer = "st1"
        /\ close[c].notice = <<[from_uid |-> "st1-staff", staff_uid |-> "st1-staff",
                                 staff_name |-> "Ann"]>>

StaffSteps == {"remove", "delete", "trigger"}

C34_OnlyActiveToClosed ==
    [][\A v \in Visitors :
        /\ ((\E c \in Calls : close'[c] # close[c])
                /\ visitor'[v].service_status # visitor[v].service_status)
           => /\ visitor[v].service_status = "active"
              /\ visitor'[v].service_status = "closed"
        /\ (sched' # sched \/ twin' # twin)
           => visitor'[v].service_status = visitor[v].service_status]_vars

\* C35: for a personal channel the session id is '{first}@{second}' with first
\* the uid of the larger CRC-32, or of two different uids with equal CRC-32
\* the lexicographically larger one; for any other channel type it is
\* '{to_uid}@{channel_type}' whatever from_uid is.
C35_SessionIdOrder ==
    calc.fn = "get_session_id"
    => LET from_uid == calc.args[1]
           to_uid == calc.args[2]
           channel_type == calc.args[3][1]
           from_hash == crc32(Utf8Encode(from_uid))
           to_hash == crc32(Utf8Encode(to_uid))
           first == IF from_hash # to_hash
                    THEN IF SeqLess(to_hash, from_hash) THEN from_uid ELSE to_uid
                    ELSE IF SeqLess(to_uid, from_uid) THEN from_uid ELSE to_uid
           second == IF first = from_uid THEN to_uid ELSE from_uid
       IN /\ ~calc.raised
          /\ channel_type = 1 => calc.out = first \o <<64>> \o second
          /\ channel_type # 1
             => /\ calc.out = to_uid \o <<64>> \o Decimal(channel_type)
                /\ \A uid \in Uids :
                       get_session_id(uid, to_uid, channel_type) = calc.out

C35_Witness ==
    /\ calc.fn = "get_session_id"
    /\ calc.args = <<Plumless, Buckeroo, <<251>>>>
    /\ calc.out = Buckeroo \o <<64, 50, 53, 49>>

\* C36: of two concurrent closes of one session the side effects happen once:
\* never have both posted the closed notification, never have both signalled
\* the queue trigger, and once both are past the guard one of them has failed
\* with the already-closed error.
C36_ConcurrentCloseOnce ==
    \A c, d \in Calls :
        (c # d /\ close[c].sid # Null /\ close[c].sid = close[d].sid)
        => /\ ~(close[c].notice # <<>> /\ close[d].notice # <<>>)
           /\ ~("trigger" \in IssuedSteps(c) /\ "trigger" \in IssuedSteps(d))
           /\ \E e \in {c, d} : close[e].error = "already_closed"

\* C37: when a new message of the visitor was recorded while the AI call for
\* the earlier message was in flight, the success write leaves the visitor
\* flag set and last_client_msg_no at the id of the new message.
C37_NewMessageNotMasked ==
    [][\A v \in Visitors :
        (/\ sched.pc = "ai"
         /\ sched.cur = v
         /\ event'.kind = "ai_result"
         /\ visitor[v].is_last_message_from_visitor
         /\ visitor[v].last_client_msg_no # sched.snap.last_client_msg_no)
        => /\ visitor'[v].is_last_message_from_visitor
           /\ visitor'[v].last_client_msg_no = visitor[v].last_client_msg_no]_vars


\* the columns of v's row that the scheduler writes
FallbackColumns(row) ==
    <<row.ai_fallback_retry_count, row.is_last_message_from_visitor,
      row.is_last_message_from_ai, row.last_client_msg_no>>

\* C38: when the close of a visitor's session has committed after a tick
\* selected the visitor and before the loop reached it (the row the loop
\* reloads on reaching it already says closed), no step of that tick changes
\* the visitor's retry count, sender flags or last_client_msg_no.
C38_NoWriteAfterRacingClose ==
    [][\A v \in Visitors :
        (/\ sched.pc \in {"fetch", "ai"}
         /\ sched.cur = v
         /\ sched.snap.service_status = "closed")
        => FallbackColumns(visitor'[v]) = FallbackColumns(visitor[v])]_vars


\* C39: when a call with auto_commit has returned for a session with a staff
\* member, the soft delete of the staff's ChannelMember row is committed: it
\* is not among what the call has left pending in its open transaction.
C39_MemberDeleteCommitted ==
    \A c \in Calls :
        (/\ close[c].pc = "returned"
         /\ close[c].auto
         /\ close[c].copy.staff_id # Null)
        => "member" \notin close[c].pending


\* C40: with a loop that keeps ticking and a stalled visitor whom nobody else
\* touches, whatever the collaborators answer, the visitor eventually stops
\* being a candidate, by a fallback that succeeded or by a retry count of
\* MAX, and the AI is invoked for its message at most MAX times (never after
\* MAX failed calls).
C40_FallbackTerminates ==
    /\ \A v \in Visitors :
           Eligible(v) ~> (\/ ~visitor[v].is_last_message_from_visitor
                           \/ visitor[v].ai_fallback_retry_count
                                  = MAX_AI_FALLBACK_RETRIES)
    /\ [][\A v \in Visitors :
            AiInvoked(v) => aiFails[v] < MAX_AI_FALLBACK_RETRIES]_vars

============================================================================
